---- MODULE Spec2Model ----
(***************************************************************************)
(* Model of the agentic tool-orchestration loop of agentic_processing.py:  *)
(* the response interpreter parse_llm_response (with the part of           *)
(* json.loads it relies on) and the orchestrator run_task.                 *)
(*                                                                         *)
(* A text is a sequence of one-character strings, so that find, rfind,     *)
(* slicing and JSON decoding work on characters as the code does.          *)
(***************************************************************************)
EXTENDS Integers, Sequences, FiniteSets, TLC

VARIABLES
    pc,                    \* position of the invocation in run_task
    iteration,             \* the loop variable of "for iteration in range(max_iterations)"
    conversation_history,  \* the round log: a sequence of rendered entries (strings)
    llm_response,          \* the raw text of the latest model response
    parsed,                \* parse_llm_response(llm_response) of the latest interpreted text
    tool_name,             \* parsed["tool"] of the round being dispatched
    tool_input,            \* parsed["input"] of the round being dispatched
    result,                \* what run_task returned (a string), once pc = "done"
    how,                   \* which return statement ended the invocation
    llm_calls,             \* number of in-budget llm.invoke calls made so far
    forced_calls,          \* number of forced-final llm.invoke calls made so far
    tool_calls,            \* number of tool.func calls made so far
    llm_outcome,           \* how the latest llm.invoke ended: "returned" or "raised"
    tool_outcome,          \* how the latest tool.func ended: "returned" or "raised"
    exc,                   \* str(e) of the latest exception raised
    user_prompt,           \* the user_prompt argument of run_task
    system_instructions,   \* the system_instructions argument: None or a string
    messages,              \* the messages of the latest llm.invoke
    trace,                 \* the calls made so far, in order (history variable)
    self,                  \* the invocation that is running (1 when there is one only)
    peer,                  \* the local state of the other invocation, while suspended
    tool_names,            \* list(tool_map.keys()): the names of the registry, in order
    http,                  \* what post_prompt answered: a status and a body
    _token,                \* auth._token: the cached access token, or None
    _exp,                  \* auth._exp: the expiry of the cached token, in seconds
    clock,                 \* what time.time() reads, in whole seconds
    now,                   \* the local "now" of the running get_access_token call
    data                   \* the local "data" of that call: the parsed token response

vars == <<pc, iteration, conversation_history, llm_response, parsed, tool_name,
          tool_input, result, how, llm_calls, forced_calls, tool_calls,
          llm_outcome, tool_outcome, exc, user_prompt, system_instructions,
          messages, trace, self, peer, tool_names, http,
          _token, _exp, clock, now, data>>

(***************************************************************************)
(* Bounds of the model.                                                    *)
(***************************************************************************)
MaxSegs == 3      \* free texts are built from at most this many segments
LongLen == 101    \* length of the long tool output (longer than the excerpt)

(***************************************************************************)
(* Text helpers.                                                           *)
(***************************************************************************)
Min(a, b) == IF a < b THEN a ELSE b

\* The Python string made of the characters cs.
RECURSIVE Join(_)
Join(cs) == IF cs = <<>> THEN "" ELSE Head(cs) \o Join(Tail(cs))

\* The concatenation of a sequence of texts.
RECURSIVE Flatten(_)
Flatten(ss) == IF ss = <<>> THEN <<>> ELSE Head(ss) \o Flatten(Tail(ss))

\* c in s
Contains(s, c) == \E i \in 1..Len(s) : s[i] = c

\* s.find(c): the 0-based index of the first c; the code calls it only when c in s.
find(s, c) == IF Contains(s, c)
              THEN (CHOOSE i \in 1..Len(s) : s[i] = c /\ \A j \in 1..(i-1) : s[j] # c) - 1
              ELSE -1

\* Variant: the span ends at the first c, not the last (s.find in place of s.rfind).
rfind_first(s, c) == find(s, c)

\* s.rfind(c): the 0-based index of the last c.
rfind(s, c) == IF Contains(s, c)
               THEN (CHOOSE i \in 1..Len(s) : s[i] = c /\ \A j \in (i+1)..Len(s) : s[j] # c) - 1
               ELSE -1

\* s[a:b] for 0 <= a, 0 <= b: empty when b <= a.
Slice(s, a, b) == SubSeq(s, a + 1, Min(b, Len(s)))

\* Is the word w (a text) found in s at the 1-based position i?
WordAt(s, i, w) == /\ i + Len(w) - 1 <= Len(s)
                   /\ SubSeq(s, i, i + Len(w) - 1) = w

(***************************************************************************)
(* json.loads, restricted to the characters of the model's texts: objects, *)
(* arrays, strings without escapes, unsigned integers with an optional     *)
(* exponent, null, true, false, and the space as whitespace.               *)
(* A value is [t |-> its Python type, s |-> its text]: a string's content, *)
(* str() of null and of a boolean, the source text of anything else.       *)
(***************************************************************************)
Digits == {"0", "1", "2", "3", "4", "5", "6", "7", "8", "9"}

NoVal == [t |-> "none", s |-> <<>>]
Fail == [ok |-> FALSE, next |-> 0, val |-> NoVal, pairs |-> <<>>]

\* The position of the first character at or after i that is not whitespace.
RECURSIVE SkipWS(_, _)
SkipWS(s, i) == IF i <= Len(s) /\ s[i] = " " THEN SkipWS(s, i + 1) ELSE i

\* The position after the run of digits that starts at i.
RECURSIVE SkipDigits(_, _)
SkipDigits(s, i) == IF i <= Len(s) /\ s[i] \in Digits THEN SkipDigits(s, i + 1) ELSE i

\* scanstring: s[i] is the opening quote; the string ends at the next quote.
ParseString(s, i) ==
    IF \E j \in (i+1)..Len(s) : s[j] = "\""
    THEN LET j == CHOOSE j \in (i+1)..Len(s) :
                     s[j] = "\"" /\ \A k \in (i+1)..(j-1) : s[k] # "\""
         IN  [ok |-> TRUE, next |-> j + 1,
              val |-> [t |-> "str", s |-> SubSeq(s, i + 1, j - 1)], pairs |-> <<>>]
    ELSE Fail

\* NUMBER_RE: (0|[1-9]\d*) then, optionally, e and digits.
ParseNumber(s, i) ==
    LET a == IF s[i] = "0" THEN i + 1 ELSE SkipDigits(s, i)
        hasExp == a + 1 <= Len(s) /\ s[a] = "e" /\ s[a + 1] \in Digits
        b == IF hasExp THEN SkipDigits(s, a + 1) ELSE a
    IN  [ok |-> TRUE, next |-> b,
         val |-> [t |-> IF hasExp THEN "float" ELSE "int", s |-> SubSeq(s, i, b - 1)],
         pairs |-> <<>>]

RECURSIVE ParseValue(_, _), ParseMembers(_, _, _), ParseElements(_, _)

\* JSONObject after a key's opening quote at position i: the key, ':', a value,
\* then '}' or ',' and the next key. acc holds the pairs read so far.
ParseMembers(s, i, acc) ==
    LET k == ParseString(s, i)
    IN  IF ~k.ok THEN Fail
        ELSE LET c == SkipWS(s, k.next)
             IN  IF ~(c <= Len(s) /\ s[c] = ":") THEN Fail
                 ELSE LET v == ParseValue(s, SkipWS(s, c + 1))
                      IN  IF ~v.ok THEN Fail
                          ELSE LET e == SkipWS(s, v.next)
                                   acc2 == Append(acc, <<k.val.s, v.val>>)
                               IN  IF e > Len(s) THEN Fail
                                   ELSE IF s[e] = "}"
                                   THEN [ok |-> TRUE, next |-> e + 1,
                                         val |-> [t |-> "dict", s |-> <<>>],
                                         pairs |-> acc2]
                                   ELSE IF s[e] # "," THEN Fail
                                   ELSE LET q == SkipWS(s, e + 1)
                                        IN  IF q <= Len(s) /\ s[q] = "\""
                                            THEN ParseMembers(s, q, acc2)
                                            ELSE Fail

\* JSONArray after '[': a value, then ']' or ',' and the next value.
ParseElements(s, i) ==
    LET v == ParseValue(s, i)
    IN  IF ~v.ok THEN Fail
        ELSE LET e == SkipWS(s, v.next)
             IN  IF e > Len(s) THEN Fail
                 ELSE IF s[e] = "]"
                 THEN [ok |-> TRUE, next |-> e + 1,
                       val |-> [t |-> "list", s |-> <<>>], pairs |-> <<>>]
                 ELSE IF s[e] # "," THEN Fail
                 ELSE ParseElements(s, SkipWS(s, e + 1))

\* scan_once at position i (no whitespace is skipped here).
ParseValue(s, i) ==
    IF i > Len(s) THEN Fail
    ELSE IF s[i] = "\"" THEN ParseString(s, i)
    ELSE IF s[i] = "{" THEN
        LET q == SkipWS(s, i + 1)
            r == IF q > Len(s) THEN Fail
                 ELSE IF s[q] = "}"
                 THEN [ok |-> TRUE, next |-> q + 1,
                       val |-> [t |-> "dict", s |-> <<>>], pairs |-> <<>>]
                 ELSE IF s[q] = "\"" THEN ParseMembers(s, q, <<>>)
                 ELSE Fail
        IN  IF r.ok THEN [r EXCEPT !.val = [t |-> "dict", s |-> SubSeq(s, i, r.next - 1)]]
            ELSE Fail
    ELSE IF s[i] = "[" THEN
        LET q == SkipWS(s, i + 1)
            r == IF q > Len(s) THEN Fail
                 ELSE IF s[q] = "]"
                 THEN [ok |-> TRUE, next |-> q + 1,
                       val |-> [t |-> "list", s |-> <<>>], pairs |-> <<>>]
                 ELSE ParseElements(s, q)
        IN  IF r.ok THEN [r EXCEPT !.val = [t |-> "list", s |-> SubSeq(s, i, r.next - 1)],
                                   !.pairs = <<>>]
            ELSE Fail
    ELSE IF s[i] \in Digits THEN ParseNumber(s, i)
    ELSE IF WordAt(s, i, <<"n", "u", "l", "l">>)
    THEN [ok |-> TRUE, next |-> i + 4, val |-> [t |-> "null", s |-> <<"N", "o", "n", "e">>],
          pairs |-> <<>>]
    ELSE IF WordAt(s, i, <<"t", "r", "u", "e">>)
    THEN [ok |-> TRUE, next |-> i + 4, val |-> [t |-> "bool", s |-> <<"T", "r", "u", "e">>],
          pairs |-> <<>>]
    ELSE IF WordAt(s, i, <<"f", "a", "l", "s", "e">>)
    THEN [ok |-> TRUE, next |-> i + 5,
          val |-> [t |-> "bool", s |-> <<"F", "a", "l", "s", "e">>], pairs |-> <<>>]
    ELSE Fail

\* json.loads(s): leading whitespace, one value, trailing whitespace, and then
\* the end of s; anything else raises (ok = FALSE).
json_loads(s) ==
    LET v == ParseValue(s, SkipWS(s, 1))
    IN  IF v.ok /\ SkipWS(s, v.next) = Len(s) + 1 THEN v ELSE Fail

\* key in d, for the dict decoded into the pairs ps.
HasKey(ps, key) == \E i \in 1..Len(ps) : ps[i][1] = key

\* d[key]: of pairs with the same key the last one wins.
Lookup(ps, key) ==
    LET i == CHOOSE i \in 1..Len(ps) :
                 ps[i][1] = key /\ \A j \in (i+1)..Len(ps) : ps[j][1] # key
    IN  ps[i][2]

(***************************************************************************)
(* parse_llm_response.                                                     *)
(***************************************************************************)
Q == "\""
TOOL_KEY == <<"t", "o", "o", "l">>
INPUT_KEY == <<"i", "n", "p", "u", "t">>

\* Variant: the final answer is response.strip().
final_answer_strip(response) ==
    [type |-> "final_answer", tool |-> NoVal, input |-> NoVal,
     content |-> IF SkipWS(response, 1) > Len(response) THEN <<>>
                 ELSE SubSeq(response, SkipWS(response, 1), Len(response))]

\* The fall-through return: the whole response is the final answer.
final_answer(response) ==
    [type |-> "final_answer", tool |-> NoVal, input |-> NoVal, content |-> response]

\* Variant: end = response.rfind("}"), without the + 1.
json_str_short(response) ==
    Slice(response, find(response, "{"), rfind(response, "}"))

\* response[start:end] with start = response.find("{"), end = response.rfind("}") + 1.
json_str(response) ==
    Slice(response, find(response, "{"), rfind(response, "}") + 1)

\* The body of the try block: what it returns, whether it raised, or neither.
try_body(response) ==
    IF Contains(response, "{") /\ Contains(response, "}")
    THEN LET tool_call == json_loads(json_str(response))
         IN  IF ~tool_call.ok
             THEN [raised |-> TRUE, returned |-> FALSE, value |-> final_answer(<<>>)]
             ELSE IF HasKey(tool_call.pairs, TOOL_KEY) /\ HasKey(tool_call.pairs, INPUT_KEY)
             THEN [raised |-> FALSE, returned |-> TRUE,
                   value |-> [type |-> "tool_call",
                              tool |-> Lookup(tool_call.pairs, TOOL_KEY),
                              input |-> Lookup(tool_call.pairs, INPUT_KEY),
                              content |-> <<>>]]
             ELSE [raised |-> FALSE, returned |-> FALSE, value |-> final_answer(<<>>)]
    ELSE [raised |-> FALSE, returned |-> FALSE, value |-> final_answer(<<>>)]

\* What a propagating exception would leave in place of a return value.
Raised == [type |-> "exception", tool |-> NoVal, input |-> NoVal, content |-> <<>>]

\* Variant: no except clause, the decoder's exception propagates.
parse_llm_response_noexcept(response) ==
    LET r == try_body(response)
    IN  IF r.raised THEN Raised
        ELSE IF r.returned THEN r.value ELSE final_answer(response)

\* Variant: a span that does not decode is reported as a third type.
parse_llm_response_unclear(response) ==
    LET r == try_body(response)
    IN  IF r.raised THEN [type |-> "unclear", tool |-> NoVal, input |-> NoVal, content |-> response]
        ELSE IF r.returned THEN r.value ELSE final_answer(response)

\* try: ... except: pass, then the fall-through return.
parse_llm_response(response) ==
    LET r == try_body(response)
    IN  IF r.returned THEN r.value ELSE final_answer(response)

(***************************************************************************)
(* The texts the interpreter is applied to.                                *)
(***************************************************************************)
W_tool == <<Q>> \o TOOL_KEY \o <<Q>>
W_input == <<Q>> \o INPUT_KEY \o <<Q>>
W_x == <<Q, "x", Q>>
CALCULATOR == <<"c", "a", "l", "c", "u", "l", "a", "t", "o", "r">>
TELEPORTER == <<"t", "e", "l", "e", "p", "o", "r", "t", "e", "r">>
W_calculator == <<Q>> \o CALCULATOR \o <<Q>>
W_teleporter == <<Q>> \o TELEPORTER \o <<Q>>
W_null == <<"n", "u", "l", "l">>

Texts ==
    LET
        Segments == { <<"{">>, <<"}">>, <<"[">>, <<"]">>, <<Q>>, <<":">>, <<",">>, <<" ">>,
                      <<"1">>, <<"x">>, W_tool, W_input, W_calculator, W_null }
        \* Every concatenation of at most MaxSegs segments.
        FreeTexts == { Flatten(ss) : ss \in UNION { [1..n -> Segments] : n \in 0..MaxSegs } }
        \* Objects of one or two members, between a prefix and a suffix.
        Keys == { W_tool, W_input, W_x }
        Values == { W_calculator, W_x, <<"1">>, <<"[", "1", "]">>, W_null, <<Q, "}", Q>> }
        Members == { k \o <<":">> \o v : k \in Keys, v \in Values }
        Objects == { <<"{">> \o m \o <<"}">> : m \in Members }
                   \cup { <<"{">> \o m[1] \o sep \o m[2] \o <<"}">> :
                              m \in Members \X Members, sep \in { <<",">>, <<",", " ">> } }
        Prefixes == { <<>>, <<"x", " ">>, <<"{">>, <<"}">> }
        Suffixes == { <<>>, <<" ", "x">>, <<"{">>, <<"}">> }
        FramedTexts == { a \o o \o b : a \in Prefixes, o \in Objects, b \in Suffixes }
        \* Two objects one after the other, with text before, between and after.
        Blocks == { <<"{">> \o W_tool \o <<":">> \o W_calculator \o <<",">> \o W_input \o <<":">> \o W_x \o <<"}">>,
                    <<"{">> \o W_tool \o <<":">> \o W_teleporter \o <<",">> \o W_input \o <<":">> \o W_x \o <<"}">>,
                    <<"{">> \o W_x \o <<":", "1", "}">>,
                    <<"{", "}">> }
        TwoBlockTexts ==
            { a \o o[1] \o m \o o[2] \o b :
                  o \in Blocks \X Blocks,
                  m \in { <<>>, <<" ">>, <<",">>, <<" ", "x", " ">> },
                  a \in { <<>>, <<"[">>, <<"x", " ">> },
                  b \in { <<>>, <<"]">>, <<" ", "x">> } }
    IN  FreeTexts \cup FramedTexts \cup TwoBlockTexts

(***************************************************************************)
(* calculator_function, for the expressions that, once cleaned, are one    *)
(* unsigned integer or two of them around one of + - * / (the division     *)
(* exact or by zero): the characters are digits, + - * / x and the space.  *)
(***************************************************************************)
DIGITS == <<"0", "1", "2", "3", "4", "5", "6", "7", "8", "9">>

\* int(ds) for a text of digits.
RECURSIVE CharsToInt(_)
CharsToInt(ds) ==
    LET DigitValue(c) == (CHOOSE i \in 1..10 : DIGITS[i] = c) - 1
    IN  IF ds = <<>> THEN 0
        ELSE 10 * CharsToInt(SubSeq(ds, 1, Len(ds) - 1)) + DigitValue(ds[Len(ds)])

\* str(n) for an integer n.
RECURSIVE NatToChars(_)
NatToChars(n) == IF n < 10 THEN <<DIGITS[n + 1]>>
                 ELSE NatToChars(n \div 10) \o <<DIGITS[(n % 10) + 1]>>
IntToChars(n) == IF n < 0 THEN <<"-">> \o NatToChars(-n) ELSE NatToChars(n)

\* expression.strip(), .replace("x", "*") and .replace(" ", "").
Strip(s) ==
    IF \A i \in 1..Len(s) : s[i] = " " THEN <<>>
    ELSE LET a == CHOOSE i \in 1..Len(s) : s[i] # " " /\ \A j \in 1..(i-1) : s[j] = " "
             b == CHOOSE i \in 1..Len(s) : s[i] # " " /\ \A j \in (i+1)..Len(s) : s[j] = " "
         IN  SubSeq(s, a, b)
Clean(expression) ==
    LET ReplaceX(s) == [i \in 1..Len(s) |-> IF s[i] = "x" THEN "*" ELSE s[i]]
        RemoveSpaces(s) == SelectSeq(s, LAMBDA c : c # " ")
    IN  RemoveSpaces(ReplaceX(Strip(expression)))

\* An integer literal of Python: digits without a leading zero, or zeros only.
IsIntLiteral(ds) ==
    /\ Len(ds) > 0
    /\ \A i \in 1..Len(ds) : ds[i] \in Digits
    /\ (ds[1] = "0" => \A i \in 1..Len(ds) : ds[i] = "0")

Operators == {"+", "-", "*", "/"}

\* The position of the operator of a cleaned expression, 0 when it has none.
OperatorAt(c) ==
    IF \E i \in 1..Len(c) : c[i] \in Operators
    THEN CHOOSE i \in 1..Len(c) : c[i] \in Operators /\ \A j \in 1..(i-1) : c[j] \notin Operators
    ELSE 0

\* The expressions calculator_function is modelled for.
InCalculatorDomain(expression) ==
    LET c == Clean(expression)
        k == OperatorAt(c)
    IN  /\ \A i \in 1..Len(expression) : expression[i] \in Digits \cup Operators \cup {"x", " "}
        /\ IF k = 0 THEN IsIntLiteral(c)
           ELSE /\ IsIntLiteral(SubSeq(c, 1, k - 1))
                /\ IsIntLiteral(SubSeq(c, k + 1, Len(c)))
                /\ (c[k] = "/" /\ CharsToInt(SubSeq(c, k + 1, Len(c))) # 0
                       => CharsToInt(SubSeq(c, 1, k - 1))
                              % CharsToInt(SubSeq(c, k + 1, Len(c))) = 0)

RESULT_PREFIX == <<"T", "h", "e", " ", "r", "e", "s", "u", "l", "t", " ", "i", "s", ":", " ", "*", "*">>
RESULT_SUFFIX == <<"*", "*">>
CANNOT_PREFIX == <<"C", "a", "n", "n", "o", "t", " ", "c", "a", "l", "c", "u", "l", "a", "t", "e", " ", "'">>
CANNOT_MIDDLE == <<"'", ".", " ", "E", "r", "r", "o", "r", ":", " ">>
DIVISION_BY_ZERO == <<"d", "i", "v", "i", "s", "i", "o", "n", " ", "b", "y", " ", "z", "e", "r", "o">>

\* Variant: the float of a division is not turned into an int ("12.0").
calculator_function_float(expression) ==
    LET c == Clean(expression)
        k == OperatorAt(c)
        a == CharsToInt(SubSeq(c, 1, k - 1))
        b == CharsToInt(SubSeq(c, k + 1, Len(c)))
    IN  IF k = 0 THEN RESULT_PREFIX \o IntToChars(CharsToInt(c)) \o RESULT_SUFFIX
        ELSE IF c[k] = "/" /\ b = 0
        THEN CANNOT_PREFIX \o expression \o CANNOT_MIDDLE \o DIVISION_BY_ZERO
        ELSE IF c[k] = "/"
        THEN RESULT_PREFIX \o IntToChars(a \div b) \o <<".", "0">> \o RESULT_SUFFIX
        ELSE RESULT_PREFIX
                 \o IntToChars(IF c[k] = "+" THEN a + b ELSE IF c[k] = "-" THEN a - b ELSE a * b)
                 \o RESULT_SUFFIX

\* calculator_function(expression): the cleaned expression is evaluated, an
\* integral result is shown as an int, an error is turned into the returned text.
calculator_function(expression) ==
    LET c == Clean(expression)
        k == OperatorAt(c)
        a == CharsToInt(SubSeq(c, 1, k - 1))
        b == CharsToInt(SubSeq(c, k + 1, Len(c)))
    IN  IF k = 0 THEN RESULT_PREFIX \o IntToChars(CharsToInt(c)) \o RESULT_SUFFIX
        ELSE IF c[k] = "/" /\ b = 0
        THEN CANNOT_PREFIX \o expression \o CANNOT_MIDDLE \o DIVISION_BY_ZERO
        ELSE RESULT_PREFIX
                 \o IntToChars(IF c[k] = "+" THEN a + b
                               ELSE IF c[k] = "-" THEN a - b
                               ELSE IF c[k] = "*" THEN a * b
                               ELSE a \div b)
                 \o RESULT_SUFFIX

(***************************************************************************)
(* safe_eval_expression on expression trees.  A node is a record whose     *)
(* field node is the name of its ast class; a number is a Python int or a  *)
(* float, held as the exact fraction num/den.                              *)
(***************************************************************************)
MaxLiteral == 2

\* The int or float ("int", "float") of value num/den, in lowest terms.
Number(t, num, den) ==
    LET RECURSIVE GCD(_, _)
        GCD(a, b) == IF b = 0 THEN a ELSE GCD(b, a % b)
        n == IF den < 0 THEN -num ELSE num
        d == IF den < 0 THEN -den ELSE den
        g == GCD(IF n < 0 THEN -n ELSE n, d)
    IN  [t |-> t, num |-> n \div g, den |-> d \div g]

\* What evaluating a node gives: a value, or an exception with its message.
Value(v) == [raised |-> FALSE, type |-> "", msg |-> "", value |-> v]
Raise(type, msg) == [raised |-> TRUE, type |-> type, msg |-> msg, value |-> Number("int", 0, 1)]

\* Variant: unary plus is in the table as well.
SAFE_OPERATORS_uadd == {"Add", "Sub", "Mult", "Div", "Pow", "Mod", "USub", "UAdd"}

\* SAFE_OPERATORS: the classes of the operators that have an entry.
SAFE_OPERATORS == {"Add", "Sub", "Mult", "Div", "Pow", "Mod", "USub"}

\* operator.add, sub, mul, truediv, pow, mod on two numbers (pow for an
\* exponent with an integral value).
BinaryOperator(op, a, b) ==
    LET t == IF a.t = "float" \/ b.t = "float" THEN "float" ELSE "int"
        k == IF b.num < 0 THEN -b.num ELSE b.num
        pow(x) == IF k = 0 THEN 1 ELSE x ^ k
        q == LET n == a.num * b.den
                 d == a.den * b.num
             IN  IF d < 0 THEN (-n) \div (-d) ELSE n \div d
    IN  CASE op = "Add" -> Value(Number(t, a.num * b.den + b.num * a.den, a.den * b.den))
          [] op = "Sub" -> Value(Number(t, a.num * b.den - b.num * a.den, a.den * b.den))
          [] op = "Mult" -> Value(Number(t, a.num * b.num, a.den * b.den))
          [] op = "Div" ->
                IF b.num = 0
                THEN Raise("ZeroDivisionError",
                           IF t = "float" THEN "float division by zero" ELSE "division by zero")
                ELSE Value(Number("float", a.num * b.den, a.den * b.num))
          [] op = "Mod" ->
                IF b.num = 0
                THEN Raise("ZeroDivisionError",
                           IF t = "float" THEN "float modulo" ELSE "integer modulo by zero")
                ELSE Value(Number(t, a.num * b.den - b.num * q * a.den, a.den * b.den))
          [] op = "Pow" ->
                IF b.num >= 0 THEN Value(Number(t, pow(a.num), pow(a.den)))
                ELSE IF a.num = 0
                THEN Raise("ZeroDivisionError", "0.0 cannot be raised to a negative power")
                ELSE Value(Number("float", pow(a.den), pow(a.num)))

\* operator.neg (and operator.pos, for the variant) on a number.
UnaryOperator(op, a) ==
    IF op = "USub" THEN Value(Number(a.t, -a.num, a.den)) ELSE Value(a)

\* isinstance(node, ast.Num): a Constant whose value is a number.
IsNum(node) == node.node = "Constant" /\ node.kind \in {"int", "float"}

\* _eval(node)
RECURSIVE _eval(_)
_eval(node) ==
    IF IsNum(node) THEN Value(node.n)
    ELSE IF node.node = "BinOp"
    THEN IF node.op \notin SAFE_OPERATORS
         THEN Raise("ValueError", "Unsupported operation: " \o node.op)
         ELSE LET left == _eval(node.left)
              IN  IF left.raised THEN left
                  ELSE LET right == _eval(node.right)
                       IN  IF right.raised THEN right
                           ELSE BinaryOperator(node.op, left.value, right.value)
    ELSE IF node.node = "UnaryOp"
    THEN IF node.op \notin SAFE_OPERATORS
         THEN Raise("ValueError", "Unsupported operation: " \o node.op)
         ELSE LET operand == _eval(node.operand)
              IN  IF operand.raised THEN operand
                  ELSE UnaryOperator(node.op, operand.value)
    ELSE Raise("ValueError", "Unsupported expression: " \o node.node)

\* The trees of the model.  The leaves are the nodes without operands that
\* _eval looks into: constants (numbers and the string 'a') and one node
\* each of Name, Call, Attribute and Compare.  A tree is a leaf, one operator
\* over leaves, or one operator over such a tree of numbers and a leaf; every
\* float computed in it is a multiple of a power of two that repr writes in
\* full, and every exponent is an integral value between -4 and 4.
ExprTrees ==
    LET Constant(kind, num, den) ==
            [node |-> "Constant", kind |-> kind, n |-> Number(kind, num, den)]
        Ints == { Constant("int", n, 1) : n \in 0..MaxLiteral }
        Leaves ==
            Ints \cup { Constant("float", 1, 2), Constant("str", 0, 1),
                        [node |-> "Name"], [node |-> "Call"], [node |-> "Attribute"],
                        [node |-> "Compare"] }
        BinOp(op, left, right) ==
            [node |-> "BinOp", op |-> op, left |-> left, right |-> right]
        UnaryOp(op, operand) == [node |-> "UnaryOp", op |-> op, operand |-> operand]
        BinaryOps == {"Add", "Sub", "Mult", "Div", "Pow", "Mod", "FloorDiv"}
        UnaryOps == {"USub", "UAdd", "Invert"}
        Trees1 ==
            { BinOp(op, l, r) : op \in BinaryOps, l \in Leaves, r \in Leaves }
                \cup { UnaryOp(op, l) : op \in UnaryOps, l \in Leaves }
        NumberTrees1 ==
            { t \in Trees1 : IF t.node = "BinOp" THEN IsNum(t.left) /\ IsNum(t.right)
                                                 ELSE IsNum(t.operand) }
        few == (Ints \ {Constant("int", 0, 1)}) \cup {[node |-> "Name"]}
        Trees2 ==
            { BinOp(op, t, l) : op \in BinaryOps, t \in NumberTrees1, l \in few }
                \cup { BinOp(op, l, t) : op \in BinaryOps, t \in NumberTrees1, l \in few }
                \cup { UnaryOp(op, t) : op \in UnaryOps, t \in NumberTrees1 }
        ok(v) == v.raised \/ v.value.den \in { 2 ^ k : k \in 0..13 }
        RECURSIVE Exact(_)
        Exact(node) ==
            IF node.node = "BinOp"
            THEN /\ Exact(node.left) /\ Exact(node.right)
                 /\ (node.op = "Pow" =>
                        LET e == _eval(node.right)
                        IN  e.raised \/ (e.value.den = 1 /\ e.value.num \in -4..4))
                 /\ ok(_eval(node))
            ELSE IF node.node = "UnaryOp" THEN Exact(node.operand)
            ELSE TRUE
    IN  { t \in Leaves \cup Trees1 \cup Trees2 : Exact(t) }

\* str of an int, and repr of a float: its decimal digits in full.
NumberToChars(v) ==
    LET RECURSIVE FractionDigits(_, _)
        FractionDigits(n, d) ==
            IF n = 0 THEN <<>>
            ELSE <<DIGITS[((10 * n) \div d) + 1]>> \o FractionDigits((10 * n) % d, d)
        a == IF v.num < 0 THEN -v.num ELSE v.num
    IN  IF v.den = 1 /\ v.t = "int" THEN IntToChars(v.num)
        ELSE (IF v.num < 0 THEN <<"-">> ELSE <<>>) \o NatToChars(a \div v.den) \o <<".">>
                 \o (IF a % v.den = 0 THEN <<"0">> ELSE FractionDigits(a % v.den, v.den))

\* The source text of a tree, an operand that has operands in parentheses:
\* ast.parse(text, mode='eval').body is the tree.
RECURSIVE Unparse(_)
Unparse(node) ==
    LET sub(n) == IF n.node \in {"BinOp", "UnaryOp"} THEN <<"(">> \o Unparse(n) \o <<")">>
                  ELSE Unparse(n)
    IN  CASE node.node = "Constant" ->
                 IF node.kind = "str" THEN <<"'", "a", "'">> ELSE NumberToChars(node.n)
          [] node.node = "Name" -> <<"a">>
          [] node.node = "Call" -> <<"f", "(", "1", ")">>
          [] node.node = "Attribute" -> <<"a", ".", "b">>
          [] node.node = "Compare" -> <<"(", "1", "<", "2", ")">>
          [] node.node = "UnaryOp" ->
                 (CASE node.op = "USub" -> <<"-">>
                    [] node.op = "UAdd" -> <<"+">>
                    [] node.op = "Invert" -> <<"~">>) \o sub(node.operand)
          [] node.node = "BinOp" ->
                 sub(node.left)
                     \o (CASE node.op = "Add" -> <<"+">>
                           [] node.op = "Sub" -> <<"-">>
                           [] node.op = "Mult" -> <<"*">>
                           [] node.op = "Div" -> <<"/">>
                           [] node.op = "Mod" -> <<"%">>
                           [] node.op = "Pow" -> <<"*", "*">>
                           [] node.op = "FloorDiv" -> <<"/", "/">>)
                     \o sub(node.right)

\* What stands for the tree of a text that ast.parse rejects.
NoTree == [node |-> "SyntaxError"]

\* safe_eval_expression(expression), tree being ast.parse(expression).body.
safe_eval_expression(tree) ==
    IF tree = NoTree THEN Raise("SyntaxError", "invalid syntax (<unknown>, line 1)")
    ELSE _eval(tree)

\* calculator_function(expression) in full: the value is shown (as an int
\* when it is integral), the exception's message is returned in the text.
calculator(expression, tree) ==
    LET r == safe_eval_expression(tree)
        v == IF r.value.den = 1 THEN Number("int", r.value.num, 1) ELSE r.value
    IN  IF r.raised
        THEN "Cannot calculate '" \o Join(expression) \o "'. Error: " \o r.msg
        ELSE "The result is: **" \o Join(NumberToChars(v)) \o "**"

(***************************************************************************)
(* run_task: the registry, the collaborators' outcomes, the log entries.   *)
(***************************************************************************)
\* get_tools(): the names of the tools, in registration order.
tools == <<"wikipedia_search", "calculator", "unit_converter">>

\* tool_map = {tool.name: tool for tool in tools}: its keys.
tool_map == { tool_names[i] : i \in 1..Len(tool_names) }

\* max_iterations = 3
max_iterations == 3

\* The excerpt length of tool_result[:100].
ExcerptLen == 100

\* str(v), as an f-string renders a decoded value.
PyStr(v) == Join(v.s)

\* hash(v) raises TypeError for a list and for a dict.
Unhashable(v) == v.t \in {"list", "dict"}
TypeErrorText(v) == "unhashable type: '" \o v.t \o "'"

\* Variant: the lookup ignores letter case and surrounding spaces.
InToolMap_fuzzy(v) ==
    /\ v.t = "str"
    /\ Join(Strip([i \in 1..Len(v.s) |-> IF v.s[i] = "C" THEN "c" ELSE v.s[i]])) \in tool_map

\* tool_name in tool_map, for a hashable tool_name: only a str equals a key.
InToolMap(v) == v.t = "str" /\ Join(v.s) \in tool_map

\* The three entries run_task appends ("->" stands for the arrow character).
UnknownEntry(name) == "Tried to use " \o PyStr(name) \o " but it doesn't exist"
\* Variant: the whole output is recorded (tool_result instead of tool_result[:100]).
SuccessEntry_full(name, input, out) ==
    "Used " \o PyStr(name) \o "('" \o PyStr(input) \o "') -> " \o Join(out) \o "..."

SuccessEntry(name, input, out) ==
    "Used " \o PyStr(name) \o "('" \o PyStr(input) \o "') -> "
            \o Join(Slice(out, 0, ExcerptLen)) \o "..."
FailureEntry(name, msg) == "Tried " \o PyStr(name) \o " but got error: Error: " \o msg

\* The string run_task returns from its except clause.
ErrorMessage(cause) ==
    "I encountered an error: " \o cause \o "\n\nPlease try rephrasing your query."

\* The texts the model answers with.
ToolCallText(t, i) ==
    <<"{">> \o W_tool \o <<":">> \o t \o <<",">> \o W_input \o <<":">> \o i \o <<"}">>
R_free == <<"n", "o">>
R_calc == ToolCallText(W_calculator, <<Q, "1", Q>>)
R_unknown == ToolCallText(W_teleporter, W_x)
R_list == ToolCallText(<<"[", "1", "]">>, W_x)
R_int == ToolCallText(<<"1">>, W_x)
R_wrapped == <<"x", " ">> \o R_calc \o <<" ", "x">>
R_two == R_calc \o R_calc
R_missing == <<"{">> \o W_tool \o <<":">> \o W_calculator \o <<"}">>
\* The request of the shipped calculator for 144/12, a request of the search
\* tool, and three requests whose names are near a registered one.
DIV_INPUT == <<"1", "4", "4", "/", "1", "2">>
WIKIPEDIA_SEARCH == <<"w", "i", "k", "i", "p", "e", "d", "i", "a", "_", "s", "e", "a", "r", "c", "h">>
NAME_CAPITAL == <<"C", "a", "l", "c", "u", "l", "a", "t", "o", "r">>
NAME_TRAILING == <<"c", "a", "l", "c", "u", "l", "a", "t", "o", "r", " ">>
NAME_SHORT == <<"c", "a", "l", "c">>
Quoted(cs) == <<Q>> \o cs \o <<Q>>
R_div == ToolCallText(W_calculator, Quoted(DIV_INPUT))
R_wiki == ToolCallText(Quoted(WIKIPEDIA_SEARCH), W_x)
R_capital == ToolCallText(Quoted(NAME_CAPITAL), W_x)
R_trailing == ToolCallText(Quoted(NAME_TRAILING), W_x)
R_short == ToolCallText(Quoted(NAME_SHORT), W_x)
Responses == { R_free, R_calc, R_unknown, R_list, R_int, R_wrapped, R_two, R_missing,
               R_div, R_wiki, R_capital, R_trailing, R_short }

\* What a tool returns, and the messages of the exceptions the collaborators raise.
LongOutput == [i \in 1..LongLen |-> "z"]
ToolOutputs == { <<"1", "2">>, LongOutput }
ToolErrors == { "timeout" }
ModelErrors == { "401 Unauthorized" }
SetupErrors == { "token request failed" }

\* tool_map[tool_name].func(tool_input), when it returns: the calculator's
\* value where calculator_function is modelled, any of ToolOutputs elsewhere.
ToolReturns(name, input) ==
    IF PyStr(name) = "calculator" /\ input.t = "str" /\ InCalculatorDomain(input.s)
    THEN { calculator_function(input.s) }
    ELSE ToolOutputs

\* The arguments of run_task. system_instructions is None (given = FALSE) or
\* a string.
UserPrompts == { "What is 144 / 12?", "asdkjasd" }
None == [given |-> FALSE, text |-> ""]
SystemInstructions == { None, [given |-> TRUE, text |-> ""],
                        [given |-> TRUE, text |-> "Answer in one sentence."] }

AGENTIC_SYSTEM_PROMPT ==
    "You are an AI assistant with access to tools. When a user asks a question, you should:\n"
    \o "\n"
    \o "1. Analyze what the user needs\n"
    \o "2. Decide which tool(s) to use\n"
    \o "3. Call the appropriate tool(s)\n"
    \o "4. Provide a helpful response based on the tool results\n"
    \o "\n"
    \o "Available tools:\n"
    \o "- wikipedia_search: Search Wikipedia for information about topics, people, places, concepts\n"
    \o "- calculator: Perform mathematical calculations (supports +, -, *, /, **, parentheses)\n"
    \o "- unit_converter: Convert between units (format: \"VALUE UNIT to UNIT\", e.g., \"100 km to miles\")\n"
    \o "\n"
    \o "To use a tool, respond with a JSON object like this:\n"
    \o "{\n"
    \o "  \"tool\": \"tool_name\",\n"
    \o "  \"input\": \"tool input\"\n"
    \o "}\n"
    \o "\n"
    \o "If you need multiple tools, you can call them sequentially.\n"
    \o "\n"
    \o "If you have enough information to answer directly without tools, just provide the answer.\n"
    \o "\n"
    \o "Be helpful, concise, and accurate."

\* The system message of the forced-final round.
FINAL_SYSTEM_PROMPT == "You are a helpful AI assistant. Provide a clear, concise answer."

\* Variant: the default is used only when system_instructions is None.
SystemContent_given(si) == IF si.given THEN si.text ELSE AGENTIC_SYSTEM_PROMPT

\* system_instructions or AGENTIC_SYSTEM_PROMPT: None and "" are falsy.
SystemContent(si) == IF si.given /\ si.text # "" THEN si.text ELSE AGENTIC_SYSTEM_PROMPT

\* Variant: only the latest entry is rendered into the prompt.
RenderEntries_last(h) ==
    IF h = <<>> THEN "" ELSE "- " \o h[Len(h)] \o "\n"

\* for entry in conversation_history: prompt += f"- {entry}\n"
RECURSIVE RenderEntries(_)
RenderEntries(h) ==
    IF h = <<>> THEN "" ELSE "- " \o Head(h) \o "\n" \o RenderEntries(Tail(h))

\* The prompt of the round with loop index n, given the log h.
RoundPrompt(up, n, h) ==
    IF n = 0
    THEN "User question: " \o up \o "\n\nWhat should I do?"
    ELSE "User question: " \o up \o "\n\n" \o "Previous actions:\n" \o RenderEntries(h)
             \o "\nWhat should I do next? If you have enough information, provide the final answer."

\* final_prompt
FinalPrompt(up, h) ==
    "User question: " \o up \o "\n\n" \o "Here's what we found:\n" \o RenderEntries(h)
        \o "\nPlease provide a final answer to the user's question based on this information."

\* messages of an in-budget round, and of the forced-final round.
RoundMessages ==
    [system |-> SystemContent(system_instructions),
     user |-> RoundPrompt(user_prompt, iteration, conversation_history)]
FinalMessages ==
    [system |-> FINAL_SYSTEM_PROMPT,
     user |-> FinalPrompt(user_prompt, conversation_history)]
NoMessages == [system |-> "", user |-> ""]

\* The record of one call in trace: a model call (kind "llm" or "forced") with
\* its prompt and the text it returned, or a tool call (kind "tool") with the
\* tool's name, its input and its output.
LlmEvent(kind, msgs, text, outcome) ==
    [kind |-> kind, round |-> iteration, name |-> "", text |-> text, out |-> <<>>,
     outcome |-> outcome, prompt |-> msgs.user]
ToolEvent(out, outcome) ==
    [kind |-> "tool", round |-> iteration, name |-> PyStr(tool_name),
     text |-> tool_input.s, out |-> out, outcome |-> outcome, prompt |-> ""]

\* The running invocation's arguments, and the scheduling of invocations.
args == <<user_prompt, system_instructions>>
sched == <<self, peer>>
NoPeer == [pc |-> "none"]

\* post_prompt has not answered yet.
NoResponse == [status |-> 0, output |-> ""]

\* What llm.invoke may return: any of Responses for one invocation alone; the
\* three kinds of round (answer, unknown tool, tool call) when two run.
ConcResponses == { R_free, R_unknown, R_calc }
ModelResponses == IF peer = NoPeer THEN Responses ELSE ConcResponses

NotParsed == [type |-> "none", tool |-> NoVal, input |-> NoVal, content |-> <<>>]

(***************************************************************************)
(* The shipped tools: each runs inside its own try and returns a text.     *)
(* What a call of a tool gives is a record: the text it returned, or the   *)
(* message of the exception that left it.                                  *)
(***************************************************************************)
Returned(text) == [raised |-> FALSE, text |-> text, msg |-> ""]

\* s.rstrip(chars)
RECURSIVE rstrip(_, _)
rstrip(s, chars) ==
    IF s # <<>> /\ s[Len(s)] \in chars THEN rstrip(SubSeq(s, 1, Len(s) - 1), chars) ELSE s

\* What the wikipedia library does in one call of the tool: the page is found
\* at once or by auto_suggest, the title is ambiguous (and the page of the
\* first option is found, or is not), there is no such page (and the search
\* finds one, finds nothing, or fails), or another exception is raised.
WikipediaOutcomes ==
    { "page", "suggested", "disambiguation_page", "disambiguation_options",
      "search_page", "search_empty", "search_failed", "error" }

\* f"**{page.title}**\n\n{page.summary}\n\nSource: {page.url}" for the page of
\* the model: the title X, a summary of LongLen characters and the url u.
PageText ==
    <<"*", "*", "X", "*", "*", "\n", "\n">>
        \o LongOutput
        \o <<"\n", "\n", "S", "o", "u", "r", "c", "e", ":", " ", "u">>

\* Variant: without the last except clause, the library's exception leaves
\* the tool.
wikipedia_search_function_raise(query, lib) ==
    IF lib = "error" THEN [raised |-> TRUE, text |-> <<>>, msg |-> "timeout"]
    ELSE Returned(PageText)

\* wikipedia_search_function(query), for a str or an int query.
wikipedia_search_function(query, lib) ==
    LET clean_query == Strip(rstrip(Strip(query.s), {"?", "!", ".", ",", ";", ":"}))
    IN  IF query.t # "str"
        THEN Returned(<<"E", "r", "r", "o", "r", " ", "s", "e", "a", "r", "c", "h",
                        "i", "n", "g", " ", "W", "i", "k", "i", "p", "e", "d", "i",
                        "a", ":", " ", "'", "i", "n", "t", "'", " ", "o", "b", "j",
                        "e", "c", "t", " ", "h", "a", "s", " ", "n", "o", " ", "a",
                        "t", "t", "r", "i", "b", "u", "t", "e", " ", "'", "s", "t",
                        "r", "i", "p", "'">>)
        ELSE CASE lib \in {"page", "suggested", "disambiguation_page", "search_page"} ->
                      Returned(PageText)
               [] lib = "disambiguation_options" ->
                      Returned(
                          <<"F", "o", "u", "n", "d", " ", "m", "u", "l", "t", "i", "p",
                            "l", "e", " ", "r", "e", "s", "u", "l", "t", "s", ".", " ",
                            "P", "l", "e", "a", "s", "e", " ", "b", "e", " ", "m", "o",
                            "r", "e", " ", "s", "p", "e", "c", "i", "f", "i", "c", ".",
                            " ", "O", "p", "t", "i", "o", "n", "s", ":", " ">>
                          \o
                          <<"M", "e", "r", "c", "u", "r", "y", " ", "(", "p", "l", "a",
                            "n", "e", "t", ")", ",", " ", "M", "e", "r", "c", "u", "r",
                            "y", " ", "(", "e", "l", "e", "m", "e", "n", "t", ")", ",",
                            " ", "M", "e", "r", "c", "u", "r", "y", " ", "(", "m", "y",
                            "t", "h", "o", "l", "o", "g", "y", ")">>)
               [] lib = "search_empty" ->
                      Returned(
                          <<"N", "o", " ", "W", "i", "k", "i", "p", "e", "d", "i", "a",
                            " ", "p", "a", "g", "e", " ", "f", "o", "u", "n", "d", " ",
                            "f", "o", "r", " ", "'">>
                          \o clean_query \o
                          <<"'", ".", " ", "T", "r", "y", " ", "d", "i", "f", "f", "e",
                            "r", "e", "n", "t", " ", "k", "e", "y", "w", "o", "r", "d",
                            "s", ".">>)
               [] lib = "search_failed" ->
                      Returned(
                          <<"C", "o", "u", "l", "d", " ", "n", "o", "t", " ", "f", "i",
                            "n", "d", " ", "i", "n", "f", "o", "r", "m", "a", "t", "i",
                            "o", "n", " ", "a", "b", "o", "u", "t", " ", "'">>
                          \o clean_query \o
                          <<"'", " ", "o", "n", " ", "W", "i", "k", "i", "p", "e", "d",
                            "i", "a", ".">>)
               [] lib = "error" -> Returned(<<"E", "r", "r", "o", "r", " ", "s", "e",
                                              "a", "r", "c", "h", "i", "n", "g", " ",
                                              "W", "i", "k", "i", "p", "e", "d", "i",
                                              "a", ":", " ", "t", "i", "m", "e", "o",
                                              "u", "t">>)

\* unit_converter_function(conversion_query), for an int and for a str
\* without a digit, which the pattern does not match.
unit_converter_function(conversion_query) ==
    IF conversion_query.t # "str"
    THEN Returned(
             <<"C", "a", "n", "n", "o", "t", " ", "c", "o", "n", "v", "e", "r", "t",
               " ", "'">>
             \o conversion_query.s \o
             <<"'", ".", " ", "E", "r", "r", "o", "r", ":", " ", "'", "i", "n", "t",
               "'", " ", "o", "b", "j", "e", "c", "t", " ", "h", "a", "s", " ", "n",
               "o", " ", "a", "t", "t", "r", "i", "b", "u", "t", "e", " ", "'", "l",
               "o", "w", "e", "r", "'">>)
    ELSE Returned(<<"P", "l", "e", "a", "s", "e", " ", "u", "s", "e", " ", "f", "o",
                    "r", "m", "a", "t", ":", " ", "'", "X", " ", "u", "n", "i", "t",
                    " ", "t", "o", " ", "u", "n", "i", "t", "'", " ", "(", "e", ".",
                    "g", ".", ",", " ", "'", "1", "0", "0", " ", "k", "i", "l", "o",
                    "m", "e", "t", "e", "r", "s", " ", "t", "o", " ", "m", "i", "l",
                    "e", "s", "'", ")">>)

\* tool_map[tool_name].func(tool_input) with the shipped registry, for the
\* inputs of ShippedResponses.
ShippedReturns(name, input) ==
    CASE PyStr(name) = "wikipedia_search" ->
             { wikipedia_search_function(input, lib) : lib \in WikipediaOutcomes }
      [] PyStr(name) = "calculator" ->
             { Returned(IF input.t # "str"
                        THEN CANNOT_PREFIX \o input.s \o CANNOT_MIDDLE
                                 \o <<"'", "i", "n", "t", "'", " ", "o", "b", "j", "e",
                                      "c", "t", " ", "h", "a", "s", " ", "n", "o", " ",
                                      "a", "t", "t", "r", "i", "b", "u", "t", "e", " ",
                                      "'", "s", "t", "r", "i", "p", "'">>
                        ELSE calculator_function(input.s)) }
      [] PyStr(name) = "unit_converter" -> { unit_converter_function(input) }

\* The texts the model answers with when it works with the shipped tools: an
\* answer, and requests of each tool with inputs it accepts and rejects.
ShippedResponses ==
    { R_free, R_calc,
      ToolCallText(W_calculator, <<Q, "1", "/", "0", Q>>),
      ToolCallText(W_calculator, <<"1">>),
      ToolCallText(Quoted(WIKIPEDIA_SEARCH), <<Q, "x", "?", Q>>),
      ToolCallText(Quoted(
          <<"u", "n", "i", "t", "_", "c", "o", "n", "v", "e", "r", "t", "e", "r">>), W_x),
      ToolCallText(Quoted(
          <<"u", "n", "i", "t", "_", "c", "o", "n", "v", "e", "r", "t", "e", "r">>), <<"1">>) }

(***************************************************************************)
(* run_task: the state machine.                                            *)
(***************************************************************************)
Init ==
    /\ pc = "start"
    /\ iteration = 0
    /\ conversation_history = <<>>
    /\ llm_response = <<>>
    /\ parsed = NotParsed
    /\ tool_name = NoVal
    /\ tool_input = NoVal
    /\ result = ""
    /\ how = "running"
    /\ llm_calls = 0
    /\ forced_calls = 0
    /\ tool_calls = 0
    /\ llm_outcome = "none"
    /\ tool_outcome = "none"
    /\ exc = ""
    /\ user_prompt \in UserPrompts
    /\ system_instructions \in SystemInstructions
    /\ messages = NoMessages
    /\ trace = <<>>
    /\ self = 1
    /\ peer = NoPeer
    /\ tool_names = <<>>
    /\ http = NoResponse
    /\ _token = None
    /\ _exp = 0
    /\ clock = 0
    /\ now = 0
    /\ data = None

\* Variant: no outer except clause, the exception leaves run_task.
Except_propagate(cause) ==
    /\ pc' = "raised"
    /\ exc' = cause
    /\ UNCHANGED <<tool_names, iteration, conversation_history, result, how>>

\* except Exception as e: return the error message.
Except(cause) ==
    /\ pc' = "done"
    /\ result' = ErrorMessage(cause)
    /\ how' = "error"
    /\ exc' = cause
    /\ UNCHANGED <<tool_names, iteration, conversation_history>>

\* Variant: the model failure is caught per round, recorded, and the loop goes on.
OnModelFailure_absorb(cause) ==
    /\ conversation_history' =
           Append(conversation_history, "Model call failed: " \o cause)
    /\ iteration' = Min(iteration + 1, max_iterations)
    /\ pc' = "loop"
    /\ exc' = cause
    /\ UNCHANGED <<tool_names, result, how>>

\* llm.invoke raised: nothing in the loop catches it.
OnModelFailure(cause) == Except(cause)

\* Variant: the return statement is missing, the loop goes on to the next round.
ReturnFinalAnswer_fallthrough(p) ==
    /\ iteration' = iteration + 1
    /\ pc' = "loop"
    /\ UNCHANGED <<tool_names, conversation_history, result, how, exc>>

\* if parsed["type"] == "final_answer": return parsed["content"]
ReturnFinalAnswer(p) ==
    /\ pc' = "done"
    /\ result' = Join(p.content)
    /\ how' = "final_answer"
    /\ UNCHANGED <<tool_names, iteration, conversation_history, exc>>

\* Variant: an unknown tool does not consume a round.
RecordUnknown_nocount(name) ==
    /\ conversation_history' = Append(conversation_history, UnknownEntry(name))
    /\ pc' = "loop"
    /\ UNCHANGED <<tool_names, iteration, result, how, exc>>

\* Variant: an unknown tool name is added to the registry's names.
RecordUnknown_register(name) ==
    /\ conversation_history' = Append(conversation_history, UnknownEntry(name))
    /\ iteration' = iteration + 1
    /\ pc' = "loop"
    /\ tool_names' = Append(tool_names, PyStr(name))
    /\ UNCHANGED <<result, how, exc>>

\* if tool_name not in tool_map: append the entry and continue.
RecordUnknown(name) ==
    /\ conversation_history' = Append(conversation_history, UnknownEntry(name))
    /\ iteration' = iteration + 1
    /\ pc' = "loop"
    /\ UNCHANGED <<tool_names, result, how, exc>>

\* elif parsed["type"] == "tool_call": look the tool up; a registered tool is
\* called next. Hashing an unhashable tool_name raises inside the outer try.
Dispatch(p) ==
    /\ tool_name' = p.tool
    /\ tool_input' = p.input
    /\ IF Unhashable(p.tool) THEN Except(TypeErrorText(p.tool))
       ELSE IF ~InToolMap(p.tool) THEN RecordUnknown(p.tool)
       ELSE /\ pc' = "tool"
            /\ UNCHANGED <<tool_names, iteration, conversation_history, result, how, exc>>

\* else: the response is neither a final answer nor a tool call.
RecordUnclear ==
    /\ conversation_history' = Append(conversation_history, "LLM response was unclear")
    /\ iteration' = iteration + 1
    /\ pc' = "loop"
    /\ UNCHANGED <<tool_names, result, how, exc, tool_name, tool_input>>

\* get_llm(...) and get_tools(): building the client may raise.
GetLLM ==
    /\ pc = "start"
    /\ \/ /\ pc' = "loop"
          /\ tool_names' = tools
          /\ UNCHANGED <<iteration, conversation_history, result, how, exc>>
       \/ \E cause \in SetupErrors : Except(cause)
    /\ UNCHANGED <<llm_response, parsed, tool_name, tool_input, llm_calls, forced_calls,
                   tool_calls, llm_outcome, tool_outcome, messages, trace, args, sched, http,
                   _token, _exp, clock, now, data>>

\* One in-budget round up to the tool call: llm.invoke, parse_llm_response,
\* and the branch on parsed["type"].
LLMRound ==
    /\ pc = "loop"
    /\ iteration < max_iterations
    /\ llm_calls' = llm_calls + 1
    /\ messages' = RoundMessages
    /\ UNCHANGED <<forced_calls, tool_calls, tool_outcome, args, sched, http,
                   _token, _exp, clock, now, data>>
    /\ \/ \E cause \in ModelErrors :
             /\ llm_outcome' = "raised"
             /\ trace' = Append(trace, LlmEvent("llm", RoundMessages, <<>>, "raised"))
             /\ OnModelFailure(cause)
             /\ UNCHANGED <<llm_response, parsed, tool_name, tool_input>>
       \/ \E text \in ModelResponses :
             /\ llm_outcome' = "returned"
             /\ trace' = Append(trace, LlmEvent("llm", RoundMessages, text, "returned"))
             /\ llm_response' = text
             /\ parsed' = parse_llm_response(text)
             /\ IF parsed'.type = "final_answer"
                THEN ReturnFinalAnswer(parsed') /\ UNCHANGED <<tool_name, tool_input>>
                ELSE IF parsed'.type = "tool_call"
                THEN Dispatch(parsed')
                ELSE RecordUnclear

\* Variant: the new entry is put in front of the log (history.insert(0, ...)).
OnToolSuccess_prepend(out) ==
    /\ conversation_history' =
           <<SuccessEntry(tool_name, tool_input, out)>> \o conversation_history
    /\ iteration' = iteration + 1
    /\ pc' = "loop"
    /\ UNCHANGED <<tool_names, result, how, exc>>

\* Variant: after a tool returned, the same round calls the tool again.
OnToolSuccess_repeat(out) ==
    /\ conversation_history' =
           Append(conversation_history, SuccessEntry(tool_name, tool_input, out))
    /\ pc' = "tool"
    /\ UNCHANGED <<tool_names, iteration, result, how, exc>>

\* tool.func returned: append the excerpt entry; the round is over.
OnToolSuccess(out) ==
    /\ conversation_history' =
           Append(conversation_history, SuccessEntry(tool_name, tool_input, out))
    /\ iteration' = iteration + 1
    /\ pc' = "loop"
    /\ UNCHANGED <<tool_names, result, how, exc>>

\* Variant: no try around tool.func, the tool's exception ends the invocation.
OnToolException_abort(msg) == Except(msg)

\* Variant: a failed tool call leaves no entry in the log.
OnToolException_silent(msg) ==
    /\ iteration' = iteration + 1
    /\ pc' = "loop"
    /\ exc' = msg
    /\ UNCHANGED <<tool_names, conversation_history, result, how>>

\* except Exception as e: append the error entry; the round is over.
OnToolException(msg) ==
    /\ conversation_history' =
           Append(conversation_history, FailureEntry(tool_name, msg))
    /\ iteration' = iteration + 1
    /\ pc' = "loop"
    /\ exc' = msg
    /\ UNCHANGED <<tool_names, result, how>>

\* tool_result = tool.func(tool_input) inside its own try.
ToolCall ==
    /\ pc = "tool"
    /\ tool_calls' = tool_calls + 1
    /\ \/ \E out \in ToolReturns(tool_name, tool_input) :
             /\ tool_outcome' = "returned"
             /\ trace' = Append(trace, ToolEvent(out, "returned"))
             /\ OnToolSuccess(out)
       \/ \E msg \in ToolErrors :
             /\ tool_outcome' = "raised"
             /\ trace' = Append(trace, ToolEvent(<<>>, "raised"))
             /\ OnToolException(msg)
    /\ UNCHANGED <<llm_response, parsed, tool_name, tool_input, llm_calls, forced_calls,
                   llm_outcome, messages, args, sched, http,
                   _token, _exp, clock, now, data>>

\* Variant: the forced-final text goes through the interpreter and dispatch.
ReturnForced_interpret(text) ==
    LET p == parse_llm_response(text)
    IN  IF p.type = "tool_call" /\ InToolMap(p.tool)
        THEN /\ pc' = "tool"
             /\ tool_name' = p.tool
             /\ tool_input' = p.input
             /\ parsed' = p
             /\ UNCHANGED <<tool_names, iteration, conversation_history, exc, result, how>>
        ELSE /\ pc' = "done"
             /\ result' = Join(text)
             /\ how' = "forced_final"
             /\ UNCHANGED <<tool_names, iteration, conversation_history, exc, tool_name,
                            tool_input, parsed>>

\* return final_answer: the text of the forced-final call, as it is.
ReturnForced(text) ==
    /\ pc' = "done"
    /\ result' = Join(text)
    /\ how' = "forced_final"
    /\ UNCHANGED <<tool_names, iteration, conversation_history, exc, tool_name, tool_input, parsed>>

\* After the loop: one more llm.invoke, whose text is returned.
ForcedFinal ==
    /\ pc = "loop"
    /\ iteration = max_iterations
    /\ forced_calls' = forced_calls + 1
    /\ messages' = FinalMessages
    /\ UNCHANGED <<llm_calls, tool_calls, tool_outcome, args, sched, http,
                   _token, _exp, clock, now, data>>
    /\ \/ \E cause \in ModelErrors :
             /\ llm_outcome' = "raised"
             /\ trace' = Append(trace, LlmEvent("forced", FinalMessages, <<>>, "raised"))
             /\ OnModelFailure(cause)
             /\ UNCHANGED <<llm_response, parsed, tool_name, tool_input>>
       \/ \E text \in ModelResponses :
             /\ llm_outcome' = "returned"
             /\ trace' = Append(trace, LlmEvent("forced", FinalMessages, text, "returned"))
             /\ llm_response' = text
             /\ ReturnForced(text)

Next == GetLLM \/ LLMRound \/ ToolCall \/ ForcedFinal

Spec == Init /\ [][Next]_vars

(***************************************************************************)
(* The interpreter alone, applied to every text of Texts.                  *)
(***************************************************************************)
ParseInit ==
    /\ pc = "interpret"
    /\ llm_response \in Texts
    /\ iteration = 0
    /\ conversation_history = <<>>
    /\ parsed = NotParsed
    /\ tool_name = NoVal
    /\ tool_input = NoVal
    /\ result = ""
    /\ how = "running"
    /\ llm_calls = 0
    /\ forced_calls = 0
    /\ tool_calls = 0
    /\ llm_outcome = "returned"
    /\ tool_outcome = "none"
    /\ exc = ""
    /\ user_prompt = ""
    /\ system_instructions = None
    /\ messages = NoMessages
    /\ trace = <<>>
    /\ self = 1
    /\ peer = NoPeer
    /\ tool_names = <<>>
    /\ http = NoResponse
    /\ _token = None
    /\ _exp = 0
    /\ clock = 0
    /\ now = 0
    /\ data = None

Interpret ==
    /\ pc = "interpret"
    /\ parsed' = parse_llm_response(llm_response)
    /\ pc' = "interpreted"
    /\ UNCHANGED <<iteration, conversation_history, llm_response, tool_name, tool_input,
                   result, how, llm_calls, forced_calls, tool_calls, llm_outcome,
                   tool_outcome, exc, messages, trace, args, sched, tool_names, http,
                   _token, _exp, clock, now, data>>

ParseNext == Interpret

ParseSpec == ParseInit /\ [][ParseNext]_vars

(***************************************************************************)
(* Two invocations: post_prompt is a plain def, so the server runs each    *)
(* request's run_task in a thread of its own. The variables above are the  *)
(* locals of the thread that is running; peer holds the locals of the      *)
(* other thread; Switch hands the processor over between two steps.        *)
(***************************************************************************)
\* The locals and arguments of the running invocation.
Locals ==
    [pc |-> pc, iteration |-> iteration, conversation_history |-> conversation_history,
     llm_response |-> llm_response, parsed |-> parsed, tool_name |-> tool_name,
     tool_input |-> tool_input, result |-> result, how |-> how, llm_calls |-> llm_calls,
     forced_calls |-> forced_calls, tool_calls |-> tool_calls,
     llm_outcome |-> llm_outcome, tool_outcome |-> tool_outcome, exc |-> exc,
     user_prompt |-> user_prompt, system_instructions |-> system_instructions,
     messages |-> messages, trace |-> trace, tool_names |-> tool_names]

\* The locals of an invocation that has not started yet.
Fresh(up, si) ==
    [pc |-> "start", iteration |-> 0, conversation_history |-> <<>>,
     llm_response |-> <<>>, parsed |-> NotParsed, tool_name |-> NoVal,
     tool_input |-> NoVal, result |-> "", how |-> "running", llm_calls |-> 0,
     forced_calls |-> 0, tool_calls |-> 0, llm_outcome |-> "none",
     tool_outcome |-> "none", exc |-> "", user_prompt |-> up,
     system_instructions |-> si, messages |-> NoMessages, trace |-> <<>>,
     tool_names |-> <<>>]

\* The part of a thread switch that is the same in the variants: every local
\* but the round log is the thread's own.
SwitchLocals ==
    /\ peer # NoPeer
    /\ self' = 3 - self
    /\ pc' = peer.pc
    /\ iteration' = peer.iteration
    /\ llm_response' = peer.llm_response
    /\ parsed' = peer.parsed
    /\ tool_name' = peer.tool_name
    /\ tool_input' = peer.tool_input
    /\ result' = peer.result
    /\ how' = peer.how
    /\ llm_calls' = peer.llm_calls
    /\ forced_calls' = peer.forced_calls
    /\ tool_calls' = peer.tool_calls
    /\ llm_outcome' = peer.llm_outcome
    /\ tool_outcome' = peer.tool_outcome
    /\ exc' = peer.exc
    /\ user_prompt' = peer.user_prompt
    /\ system_instructions' = peer.system_instructions
    /\ messages' = peer.messages
    /\ trace' = peer.trace
    /\ tool_names' = peer.tool_names
    /\ UNCHANGED <<_token, _exp, clock, now, data>>
    /\ http' = http

\* Variant: conversation_history is one module-level list that both threads
\* append to.
Switch_sharedlog ==
    /\ SwitchLocals
    /\ conversation_history' = conversation_history
    /\ peer' = [Locals EXCEPT !.conversation_history = peer.conversation_history]

\* The other thread runs next: conversation_history is created inside
\* run_task (line 141), so it is a local like the rest.
Switch ==
    /\ SwitchLocals
    /\ conversation_history' = peer.conversation_history
    /\ peer' = Locals

ConcInit ==
    /\ pc = "start"
    /\ iteration = 0
    /\ conversation_history = <<>>
    /\ llm_response = <<>>
    /\ parsed = NotParsed
    /\ tool_name = NoVal
    /\ tool_input = NoVal
    /\ result = ""
    /\ how = "running"
    /\ llm_calls = 0
    /\ forced_calls = 0
    /\ tool_calls = 0
    /\ llm_outcome = "none"
    /\ tool_outcome = "none"
    /\ exc = ""
    /\ user_prompt = "What is 144 / 12?"
    /\ system_instructions = None
    /\ messages = NoMessages
    /\ trace = <<>>
    /\ self = 1
    /\ peer = Fresh("asdkjasd", None)
    /\ tool_names = <<>>
    /\ http = NoResponse
    /\ _token = None
    /\ _exp = 0
    /\ clock = 0
    /\ now = 0
    /\ data = None

ConcNext == GetLLM \/ LLMRound \/ ToolCall \/ ForcedFinal \/ Switch

ConcSpec == ConcInit /\ [][ConcNext]_vars

(***************************************************************************)
(* The HTTP front end: post_prompt calls run_task and answers.             *)
(***************************************************************************)
\* return PromptResponse(output=output) when run_task returned; the except
\* clause answers HTTP 400 when an exception left run_task.
PostPrompt ==
    /\ pc \in {"done", "raised"}
    /\ pc' = "responded"
    /\ UNCHANGED <<_token, _exp, clock, now, data>>
    /\ http' = IF pc = "done"
               THEN [status |-> 200, output |-> result]
               ELSE [status |-> 400, output |-> ""]
    /\ UNCHANGED <<iteration, conversation_history, llm_response, parsed, tool_name,
                   tool_input, result, how, llm_calls, forced_calls, tool_calls,
                   llm_outcome, tool_outcome, exc, user_prompt, system_instructions,
                   messages, trace, self, peer, tool_names>>

ServerNext == GetLLM \/ LLMRound \/ ToolCall \/ ForcedFinal \/ PostPrompt

ServerSpec == Init /\ [][ServerNext]_vars

(***************************************************************************)
(* calculator_function alone, applied to the source text of every tree of  *)
(* ExprTrees and to texts that are not expressions.                        *)
(***************************************************************************)
\* tool_input is the expression; parsed is what ast.parse gives for the
\* cleaned expression.
CalcInit ==
    /\ pc = "calc"
    /\ \E pad \in { <<>>, <<" ">> } :
          \/ \E tree \in ExprTrees :
                /\ parsed = tree
                /\ tool_input = [t |-> "str", s |-> pad \o Unparse(tree) \o pad]
          \/ \E text \in { <<"1", "+">>, <<"2", "*">>, <<"/", "1">> } :
                /\ parsed = NoTree
                /\ tool_input = [t |-> "str", s |-> pad \o text \o pad]
    /\ llm_response = <<>>
    /\ iteration = 0
    /\ conversation_history = <<>>
    /\ tool_name = [t |-> "str", s |-> <<"c", "a", "l", "c", "u", "l", "a", "t", "o", "r">>]
    /\ result = ""
    /\ how = "running"
    /\ llm_calls = 0
    /\ forced_calls = 0
    /\ tool_calls = 0
    /\ llm_outcome = "returned"
    /\ tool_outcome = "none"
    /\ exc = ""
    /\ user_prompt = ""
    /\ system_instructions = None
    /\ messages = NoMessages
    /\ trace = <<>>
    /\ self = 1
    /\ peer = NoPeer
    /\ tool_names = <<>>
    /\ http = NoResponse
    /\ _token = None
    /\ _exp = 0
    /\ clock = 0
    /\ now = 0
    /\ data = None

\* calculator_function(expression): clean, ast.parse, _eval, and the text of
\* the value or of the exception.
Calculate ==
    /\ pc = "calc"
    /\ IF parsed = NoTree THEN TRUE ELSE Unparse(parsed) = Clean(tool_input.s)
    /\ result' = calculator(tool_input.s, parsed)
    /\ tool_outcome' = "returned"
    /\ tool_calls' = tool_calls + 1
    /\ pc' = "calculated"
    /\ UNCHANGED <<iteration, conversation_history, llm_response, parsed, tool_name,
                   tool_input, how, llm_calls, forced_calls, llm_outcome, exc,
                   messages, trace, args, sched, tool_names, http,
                   _token, _exp, clock, now, data>>

CalcSpec == CalcInit /\ [][Calculate]_vars

(***************************************************************************)
(* run_task with the shipped registry: the model asks for the shipped      *)
(* tools, and a tool call gives what the tool's function gives.            *)
(***************************************************************************)
\* One in-budget round, the model answering with one of ShippedResponses.
ShippedLLMRound ==
    /\ pc = "loop"
    /\ iteration < max_iterations
    /\ llm_calls' = llm_calls + 1
    /\ messages' = RoundMessages
    /\ UNCHANGED <<forced_calls, tool_calls, tool_outcome, args, sched, http,
                   _token, _exp, clock, now, data>>
    /\ \/ \E cause \in ModelErrors :
             /\ llm_outcome' = "raised"
             /\ trace' = Append(trace, LlmEvent("llm", RoundMessages, <<>>, "raised"))
             /\ OnModelFailure(cause)
             /\ UNCHANGED <<llm_response, parsed, tool_name, tool_input>>
       \/ \E text \in ShippedResponses :
             /\ llm_outcome' = "returned"
             /\ trace' = Append(trace, LlmEvent("llm", RoundMessages, text, "returned"))
             /\ llm_response' = text
             /\ parsed' = parse_llm_response(text)
             /\ IF parsed'.type = "final_answer"
                THEN ReturnFinalAnswer(parsed') /\ UNCHANGED <<tool_name, tool_input>>
                ELSE IF parsed'.type = "tool_call"
                THEN Dispatch(parsed')
                ELSE RecordUnclear

\* tool_result = tool.func(tool_input) inside its own try, tool.func being
\* the function of the shipped tool.
ShippedToolCall ==
    /\ pc = "tool"
    /\ tool_calls' = tool_calls + 1
    /\ \E r \in ShippedReturns(tool_name, tool_input) :
          IF r.raised
          THEN /\ tool_outcome' = "raised"
               /\ trace' = Append(trace, ToolEvent(<<>>, "raised"))
               /\ OnToolException(r.msg)
          ELSE /\ tool_outcome' = "returned"
               /\ trace' = Append(trace, ToolEvent(r.text, "returned"))
               /\ OnToolSuccess(r.text)
    /\ UNCHANGED <<llm_response, parsed, tool_name, tool_input, llm_calls, forced_calls,
                   llm_outcome, messages, args, sched, http,
                   _token, _exp, clock, now, data>>

ShippedSpec == Init /\ [][GetLLM \/ ShippedLLMRound \/ ShippedToolCall \/ ForcedFinal]_vars

(***************************************************************************)
(* tool_processing.run_task, the single-tool pipeline: one Wikipedia       *)
(* search, then one summary by the model.  Prompts are texts without a     *)
(* Wikipedia URL, their whitespace being spaces.                           *)
(***************************************************************************)
\* w in s, for two texts.
InText(w, s) == \E i \in 1..Len(s) : WordAt(s, i, w)

\* s.strip().rstrip('?!.,;:').strip(), then ' '.join(s.split()).
clean_query(s) ==
    LET t == Strip(rstrip(Strip(s), {"?", "!", ".", ",", ";", ":"}))
    IN  SelectSeq([i \in 1..Len(t) |-> IF i > 1 /\ t[i] = " " /\ t[i - 1] = " " THEN "" ELSE t[i]],
                  LAMBDA c : c # "")

\* search_query: the prompt without the first of the common phrases found in
\* it (the phrases are looked for in the lowered prompt), cleaned.
search_query(prompt) ==
    LET phrases ==
            << <<"t", "e", "l", "l", " ", "m", "e", " ", "a", "b", "o", "u", "t">>,
               <<"s", "e", "a", "r", "c", "h", " ", "f", "o", "r">>,
               <<"s", "u", "m", "m", "a", "r", "i", "z", "e">>,
               <<"w", "h", "a", "t", " ", "i", "s">>,
               <<"w", "h", "o", " ", "i", "s">>,
               <<"e", "x", "p", "l", "a", "i", "n">>,
               <<"w", "i", "k", "i", "p", "e", "d", "i", "a", " ", "p", "a", "g", "e",
                 " ", "a", "b", "o", "u", "t">>,
               <<"i", "n", "f", "o", "r", "m", "a", "t", "i", "o", "n", " ", "a", "b",
                 "o", "u", "t">>,
               <<"g", "i", "v", "e", " ", "m", "e", " ", "i", "n", "f", "o", "r", "m",
                 "a", "t", "i", "o", "n", " ", "o", "n">> >>
        upper == <<"A", "B", "C", "D", "E", "F", "G", "H", "I", "J", "K", "L", "M",
                   "N", "O", "P", "Q", "R", "S", "T", "U", "V", "W", "X", "Y", "Z">>
        letters == <<"a", "b", "c", "d", "e", "f", "g", "h", "i", "j", "k", "l", "m",
                     "n", "o", "p", "q", "r", "s", "t", "u", "v", "w", "x", "y", "z">>
        search_lower ==
            [i \in 1..Len(prompt) |->
                IF \E k \in 1..26 : upper[k] = prompt[i]
                THEN letters[CHOOSE k \in 1..26 : upper[k] = prompt[i]]
                ELSE prompt[i]]
        found == { k \in 1..Len(phrases) : InText(phrases[k], search_lower) }
        phrase == phrases[CHOOSE k \in found : \A j \in found : k <= j]
        idx == CHOOSE i \in 1..Len(prompt) :
                   /\ WordAt(search_lower, i, phrase)
                   /\ \A j \in 1..(i - 1) : ~WordAt(search_lower, j, phrase)
    IN  clean_query(IF found = {} THEN prompt
                    ELSE SubSeq(prompt, 1, idx - 1)
                             \o SubSeq(prompt, idx + Len(phrase), Len(prompt)))

\* search_wikipedia(query): the text of the page the library finds (at once,
\* by auto_suggest, as the first option of a disambiguation, as the first
\* search result), 'No Wikipedia pages found' for an empty search, 'Error
\* searching Wikipedia' for every exception.
search_wikipedia(query, lib) ==
    CASE lib.path \in {"page", "suggested", "disambiguation", "search_page"} ->
             <<"T", "i", "t", "l", "e", ":", " ">>
                 \o lib.page.title \o
             <<"\n", "\n", "S", "u", "m", "m", "a", "r", "y", ":", " ">>
                 \o lib.page.summary \o
             <<"\n", "\n", "U", "R", "L", ":", " ">>
                 \o lib.page.url
      [] lib.path = "search_empty" ->
             <<"N", "o", " ", "W", "i", "k", "i", "p", "e", "d", "i", "a", " ", "p",
               "a", "g", "e", "s", " ", "f", "o", "u", "n", "d", " ", "f", "o", "r",
               " ", "'">>
                 \o clean_query(query) \o <<"'">>
      [] lib.path \in {"disambiguation_failed", "search_failed", "error"} ->
             <<"E", "r", "r", "o", "r", " ", "s", "e", "a", "r", "c", "h", "i", "n",
               "g", " ", "W", "i", "k", "i", "p", "e", "d", "i", "a", ":", " ", "t",
               "i", "m", "e", "o", "u", "t">>

\* The state when run_task is entered.
PipelineInit ==
    /\ pc = "start"
    /\ user_prompt \in
           { <<"t", "e", "l", "l", " ", "m", "e", " ", "a", "b", "o", "u", "t", " ", "x">>,
             <<"W", "h", "a", "t", " ", "i", "s", " ", " ", "t", "h", "e", " ", "x", "?">>,
             <<"x">>,
             <<"a", "s", "d", "k", "j", "a", "s", "d", " ", "!">> }
    /\ system_instructions \in SystemInstructions
    /\ iteration = 0
    /\ conversation_history = <<>>
    /\ llm_response = <<>>
    /\ parsed = NotParsed
    /\ tool_name = NoVal
    /\ tool_input = NoVal
    /\ result = ""
    /\ how = "running"
    /\ llm_calls = 0
    /\ forced_calls = 0
    /\ tool_calls = 0
    /\ llm_outcome = "none"
    /\ tool_outcome = "none"
    /\ exc = ""
    /\ messages = NoMessages
    /\ trace = <<>>
    /\ self = 1
    /\ peer = NoPeer
    /\ tool_names = <<>>
    /\ http = NoResponse
    /\ _token = None
    /\ _exp = 0
    /\ clock = 0
    /\ now = 0
    /\ data = None

\* wiki_content = search_wikipedia(search_query), and the test of a failed
\* search, which returns wiki_content.  The library finds a page with a
\* summary of one of two kinds, or fails in one of its ways.
SearchWikipedia ==
    /\ pc = "start"
    /\ tool_calls' = tool_calls + 1
    /\ tool_input' = [t |-> "str", s |-> search_query(user_prompt)]
    /\ tool_outcome' = "returned"
    /\ \E path \in { "page", "suggested", "disambiguation", "search_page", "search_empty",
                      "disambiguation_failed", "search_failed", "error" },
          summary \in { <<"s">>,
                        <<"I", "t", " ", "r", "e", "a", "d", "s", ":", " ", "N", "o",
                          " ", "W", "i", "k", "i", "p", "e", "d", "i", "a", " ", "p",
                          "a", "g", "e", "s", " ", "f", "o", "u", "n", "d", ".">> } :
          LET lib == [path |-> path,
                      page |-> [title |-> <<"X">>, summary |-> summary, url |-> <<"u">>]]
              wiki_content == search_wikipedia(search_query(user_prompt), lib)
          IN  /\ trace' = Append(trace,
                      [kind |-> "search", round |-> 0, name |-> "search_wikipedia",
                       text |-> search_query(user_prompt), out |-> wiki_content,
                       outcome |-> path, prompt |-> ""])
              /\ IF \/ InText(
                        <<"E", "r", "r", "o", "r", " ", "s", "e", "a", "r", "c", "h",
                          "i", "n", "g", " ", "W", "i", "k", "i", "p", "e", "d", "i",
                          "a">>, wiki_content)
                    \/ InText(
                        <<"N", "o", " ", "W", "i", "k", "i", "p", "e", "d", "i", "a",
                          " ", "p", "a", "g", "e", "s", " ", "f", "o", "u", "n", "d">>, wiki_content)
                 THEN /\ pc' = "done"
                      /\ result' = Join(wiki_content)
                      /\ how' = "search_failed"
                 ELSE /\ pc' = "searched"
                      /\ UNCHANGED <<result, how>>
    /\ UNCHANGED <<iteration, conversation_history, llm_response, parsed, tool_name,
                   llm_calls, forced_calls, llm_outcome, exc, messages, args, sched,
                   tool_names, http,
                   _token, _exp, clock, now, data>>

\* The try block: get_llm, the summarization prompt, llm.invoke, and the
\* fallback of the except clause.
Summarize ==
    LET wiki_content == Join(trace[1].out)
        summarization_prompt ==
            "Based on the following Wikipedia content, provide a clear and concise summary "
                \o "that answers the user's question.\n\nWikipedia Content:\n" \o wiki_content
                \o "\n\nUser's Request: " \o Join(user_prompt)
                \o "\n\nPlease provide a helpful, well-structured summary. Keep it "
                \o "informative but concise. Mention that this information is from Wikipedia."
        system_message ==
            IF system_instructions.given /\ system_instructions.text # ""
            THEN system_instructions.text
            ELSE "You are a helpful, tool-using agent. Prefer web_search/wiki for factual "
                     \o "queries. Be concise and include dates for time-sensitive info."
        fallback ==
            "Here's the Wikipedia content (LLM summarization unavailable):\n\n" \o wiki_content
    IN  /\ pc = "searched"
        /\ pc' = "done"
        /\ \/ \E cause \in SetupErrors :
                 /\ result' = fallback
                 /\ how' = "fallback"
                 /\ exc' = cause
                 /\ UNCHANGED <<llm_calls, llm_outcome, llm_response, messages>>
           \/ \E cause \in ModelErrors :
                 /\ llm_calls' = llm_calls + 1
                 /\ llm_outcome' = "raised"
                 /\ messages' = [system |-> system_message, user |-> summarization_prompt]
                 /\ result' = fallback
                 /\ how' = "fallback"
                 /\ exc' = cause
                 /\ UNCHANGED llm_response
           \/ \E text \in Responses :
                 /\ llm_calls' = llm_calls + 1
                 /\ llm_outcome' = "returned"
                 /\ messages' = [system |-> system_message, user |-> summarization_prompt]
                 /\ llm_response' = text
                 /\ result' = Join(text)
                 /\ how' = "summary"
                 /\ UNCHANGED exc
        /\ UNCHANGED <<iteration, conversation_history, parsed, tool_name, tool_input,
                       forced_calls, tool_calls, tool_outcome, trace, args, sched,
                       tool_names, http,
                   _token, _exp, clock, now, data>>

PipelineSpec == PipelineInit /\ [][SearchWikipedia \/ Summarize]_vars

(***************************************************************************)
(* processing._agentic_answer: the model-native tool-calling loop.         *)
(*                                                                         *)
(* The variables are read as follows: iteration is the loop variable of    *)
(* "for _ in range(max_steps)", conversation_history is the local list     *)
(* "messages", messages is the list handed to the latest invoke, llm_calls *)
(* counts llm_with_tools.invoke, forced_calls counts llm.invoke, and       *)
(* tool_calls counts tool.invoke.  A message is a record with its type and *)
(* content; a content is a str or a list of blocks.                        *)
(***************************************************************************)
max_steps == 4

AgentInit ==
    /\ pc = "loop"
    /\ user_prompt \in { <<"2", "+", "2">>, <<"h", "i">> }
    /\ system_instructions = NoVal
    /\ iteration = 0
    /\ conversation_history = << [type |-> "human", content |-> Join(user_prompt)] >>
    /\ llm_response = <<>>
    /\ parsed = NotParsed
    /\ tool_name = NoVal
    /\ tool_input = NoVal
    /\ result = ""
    /\ how = "running"
    /\ llm_calls = 0
    /\ forced_calls = 0
    /\ tool_calls = 0
    /\ llm_outcome = "none"
    /\ tool_outcome = "none"
    /\ exc = ""
    /\ messages = NoMessages
    /\ trace = <<>>
    /\ self = 1
    /\ peer = NoPeer
    /\ tool_names = <<"web_search", "wiki_summary", "fetch_url", "calculator",
                      "unit_convert", "now">>
    /\ http = NoResponse
    /\ _token = None
    /\ _exp = 0
    /\ clock = 0
    /\ now = 0
    /\ data = None

\* The variant that gives up at the first call that fails: the messages end
\* with the one of the first unknown or raising tool.
_run_tool_calls_stop(ai, outs) ==
    LET TOOL_MAP == { tool_names[i] : i \in 1..Len(tool_names) }
        failed(i) == \/ ai.tool_calls[i].name \notin TOOL_MAP
                     \/ outs[i].outcome = "raised"
        last == IF \E i \in 1..Len(ai.tool_calls) : failed(i)
                THEN CHOOSE i \in 1..Len(ai.tool_calls) :
                         failed(i) /\ \A j \in 1..(i - 1) : ~failed(j)
                ELSE Len(ai.tool_calls)
    IN  [i \in 1..last |->
            [type |-> "tool",
             content |->
                 IF ai.tool_calls[i].name \notin TOOL_MAP
                 THEN "Tool '" \o ai.tool_calls[i].name \o "' not found."
                 ELSE IF outs[i].outcome = "raised"
                      THEN "ERROR: " \o outs[i].text
                      ELSE outs[i].text,
             tool_call_id |-> ai.tool_calls[i].id]]

\* The variant that has no message for a call of an unknown tool.
_run_tool_calls_known(ai, outs) ==
    LET TOOL_MAP == { tool_names[i] : i \in 1..Len(tool_names) }
        RECURSIVE Results(_)
        Results(i) ==
            IF i > Len(ai.tool_calls) THEN <<>>
            ELSE IF ai.tool_calls[i].name \notin TOOL_MAP THEN Results(i + 1)
            ELSE << [type |-> "tool",
                     content |-> IF outs[i].outcome = "raised"
                                 THEN "ERROR: " \o outs[i].text
                                 ELSE outs[i].text,
                     tool_call_id |-> ai.tool_calls[i].id] >> \o Results(i + 1)
    IN  Results(1)

\* The tool messages of one response: one per call, in order.  outs[i] is
\* what tool.invoke does for call i when its tool is in TOOL_MAP.
_run_tool_calls(ai, outs) ==
    LET TOOL_MAP == { tool_names[i] : i \in 1..Len(tool_names) }
        ToolMessage(i) ==
            LET call == ai.tool_calls[i]
            IN  [type |-> "tool",
                 content |->
                     IF call.name \notin TOOL_MAP
                     THEN "Tool '" \o call.name \o "' not found."
                     ELSE IF outs[i].outcome = "raised"
                          THEN "ERROR: " \o outs[i].text
                          ELSE outs[i].text,
                 tool_call_id |-> call.id]
    IN  [i \in 1..Len(ai.tool_calls) |-> ToolMessage(i)]

\* One pass of the loop body: the model with the tools bound is invoked on
\* the messages; a response without tool calls is returned, any other is
\* appended with the messages of its calls.  An exception of the model is
\* not caught.
AgentStep ==
    /\ pc = "loop"
    /\ iteration < max_steps
    /\ llm_calls' = llm_calls + 1
    /\ messages' = conversation_history
    /\ \/ \E cause \in {"rate limit"} :
            /\ pc' = "raised"
            /\ how' = "raised"
            /\ llm_outcome' = "raised"
            /\ exc' = cause
            /\ trace' = Append(trace, [call |-> "llm_with_tools.invoke",
                                       outcome |-> "raised",
                                       tool_calls |-> 0, content |-> cause])
            /\ UNCHANGED <<iteration, conversation_history, result, tool_calls,
                           tool_outcome>>
       \/ \E names \in { <<>>, <<"calculator">>, <<"teleporter">>,
                         <<"calculator", "teleporter">>,
                         <<"teleporter", "calculator">>,
                         <<"calculator", "calculator">> } :
          \E content \in IF names = <<>>
                         THEN { [str |-> "4"], [blocks |-> <<"4">>] }
                         ELSE { [str |-> ""] },
             outs \in [1..Len(names) ->
                          { [outcome |-> "returned", text |-> "{'result': 4.0}"],
                            [outcome |-> "raised", text |-> "1 validation error"] }] :
            LET ai == [type |-> "ai", content |-> content,
                       tool_calls |-> [i \in 1..Len(names) |->
                                          [name |-> names[i],
                                           id |-> <<iteration, i>>]]]
                known == { i \in 1..Len(names) :
                              \E k \in 1..Len(tool_names) : tool_names[k] = names[i] }
                invoked == SelectSeq([i \in 1..Len(names) |-> i],
                                     LAMBDA i : i \in known)
            IN  /\ \A i \in 1..Len(names) :
                       i \notin known => outs[i].outcome = "returned"
                /\ llm_outcome' = "returned"
                /\ exc' = exc
                /\ trace' = Append(trace, [call |-> "llm_with_tools.invoke",
                                           outcome |-> "returned",
                                           tool_calls |-> Len(names),
                                           content |-> content])
                            \o [k \in 1..Len(invoked) |->
                                   [call |-> "tool.invoke",
                                    outcome |-> outs[invoked[k]].outcome,
                                    tool_calls |-> ai.tool_calls[invoked[k]].id,
                                    content |-> outs[invoked[k]].text]]
                /\ IF Len(ai.tool_calls) = 0
                   THEN /\ pc' = "done"
                        /\ how' = "answer"
                        /\ result' = IF "str" \in DOMAIN ai.content
                                     THEN ai.content.str
                                     ELSE "['" \o ai.content.blocks[1] \o "']"
                        /\ UNCHANGED <<iteration, conversation_history,
                                       tool_calls, tool_outcome>>
                   ELSE /\ pc' = "loop"
                        /\ iteration' = iteration + 1
                        /\ conversation_history' =
                               Append(conversation_history, ai)
                               \o _run_tool_calls(ai, outs)
                        /\ tool_calls' = tool_calls + Cardinality(known)
                        /\ tool_outcome' =
                               IF known = {} THEN tool_outcome
                               ELSE outs[CHOOSE i \in known :
                                            \A j \in known : j <= i].outcome
                        /\ UNCHANGED <<how, result>>
    /\ UNCHANGED <<llm_response, parsed, tool_name, tool_input, forced_calls,
                   user_prompt, system_instructions, self, peer, tool_names, http,
                   _token, _exp, clock, now, data>>

\* The variant that makes its call on the model with the tools bound.
Failsafe_bound ==
    /\ pc = "loop"
    /\ iteration = max_steps
    /\ llm_calls' = llm_calls + 1
    /\ messages' = conversation_history
    /\ trace' = Append(trace, [call |-> "llm_with_tools.invoke",
                               outcome |-> "returned", tool_calls |-> 0,
                               content |-> [str |-> "4"]])
    /\ pc' = "done"
    /\ how' = "failsafe"
    /\ llm_outcome' = "returned"
    /\ result' = "4"
    /\ UNCHANGED <<iteration, conversation_history, llm_response, parsed,
                   tool_name, tool_input, forced_calls, tool_calls, tool_outcome,
                   exc, user_prompt, system_instructions, self, peer, tool_names, http,
                   _token, _exp, clock, now, data>>

\* After the loop: the model without the tools is invoked once on the
\* messages and the request of a final answer; its content is returned.
Failsafe ==
    /\ pc = "loop"
    /\ iteration = max_steps
    /\ forced_calls' = forced_calls + 1
    /\ messages' = Append(conversation_history,
                          [type |-> "human",
                           content |-> "Provide a concise final answer."])
    /\ \/ \E cause \in {"rate limit"} :
            /\ pc' = "raised"
            /\ how' = "raised"
            /\ llm_outcome' = "raised"
            /\ exc' = cause
            /\ trace' = Append(trace, [call |-> "llm.invoke", outcome |-> "raised",
                                       tool_calls |-> 0, content |-> cause])
            /\ UNCHANGED result
       \/ \E content \in { [str |-> "4"], [blocks |-> <<"4">>] } :
            /\ pc' = "done"
            /\ how' = "failsafe"
            /\ llm_outcome' = "returned"
            /\ result' = IF "str" \in DOMAIN content
                         THEN content.str
                         ELSE "['" \o content.blocks[1] \o "']"
            /\ trace' = Append(trace, [call |-> "llm.invoke", outcome |-> "returned",
                                       tool_calls |-> 0, content |-> content])
            /\ UNCHANGED exc
    /\ UNCHANGED <<iteration, conversation_history, llm_response, parsed,
                   tool_name, tool_input, llm_calls, tool_calls, tool_outcome,
                   user_prompt, system_instructions, self, peer, tool_names, http,
                   _token, _exp, clock, now, data>>

AgentSpec == AgentInit /\ [][AgentStep \/ Failsafe]_vars

(***************************************************************************)
(* auth.get_access_token: the cached credential of the model client.       *)
(*                                                                         *)
(* _token and _exp are the globals of the module; now and data are locals  *)
(* of the call that is running, with pc, result, how and exc; peer holds   *)
(* the locals of the other caller.  Time is counted in whole seconds.  A   *)
(* token is None or a string; trace is the history of the requests, the    *)
(* stores and the ends of the calls of both callers, in order.  One action *)
(* is one line of the function, so that another caller may run between     *)
(* any two lines.                                                          *)
(***************************************************************************)
MaxCalls == 3
MaxSeconds == 2

\* One caller, nothing cached yet: _token, _exp = None, 0.
AuthInit ==
    /\ pc = "idle"
    /\ _token = None
    /\ _exp = 0
    /\ clock = 0
    /\ now = 0
    /\ data = None
    /\ result = ""
    /\ how = "idle"
    /\ exc = ""
    /\ trace = <<>>
    /\ self = 1
    /\ peer = NoPeer
    /\ user_prompt = <<>>
    /\ system_instructions = None
    /\ iteration = 0
    /\ conversation_history = <<>>
    /\ llm_response = <<>>
    /\ parsed = NotParsed
    /\ tool_name = NoVal
    /\ tool_input = NoVal
    /\ llm_calls = 0
    /\ forced_calls = 0
    /\ tool_calls = 0
    /\ llm_outcome = "none"
    /\ tool_outcome = "none"
    /\ messages = NoMessages
    /\ tool_names = <<>>
    /\ http = NoResponse

\* Two callers, neither of which has entered yet.
AuthConcInit ==
    /\ pc = "idle"
    /\ _token = None
    /\ _exp = 0
    /\ clock = 0
    /\ now = 0
    /\ data = None
    /\ result = ""
    /\ how = "idle"
    /\ exc = ""
    /\ trace = <<>>
    /\ self = 1
    /\ peer = [pc |-> "idle", now |-> 0, data |-> None, result |-> "",
               how |-> "idle", exc |-> ""]
    /\ user_prompt = <<>>
    /\ system_instructions = None
    /\ iteration = 0
    /\ conversation_history = <<>>
    /\ llm_response = <<>>
    /\ parsed = NotParsed
    /\ tool_name = NoVal
    /\ tool_input = NoVal
    /\ llm_calls = 0
    /\ forced_calls = 0
    /\ tool_calls = 0
    /\ llm_outcome = "none"
    /\ tool_outcome = "none"
    /\ messages = NoMessages
    /\ tool_names = <<>>
    /\ http = NoResponse

\* The wall clock moves on, by a second or by 3539 seconds, which is one
\* second less than the life of a token of 3600 seconds in the cache.  The
\* seconds looked at are the first MaxSeconds after each such leap.
Tick ==
    /\ \E d \in {1, 3539} :
           /\ clock + d <= 3539 + MaxSeconds
           /\ (clock + d) % 3539 <= MaxSeconds
           /\ clock' = clock + d
    /\ UNCHANGED <<pc, iteration, conversation_history, llm_response, parsed,
                   tool_name, tool_input, result, how, llm_calls, forced_calls,
                   tool_calls, llm_outcome, tool_outcome, exc, user_prompt,
                   system_instructions, messages, trace, self, peer, tool_names,
                   http, _token, _exp, now, data>>

\* A caller enters get_access_token: now = time.time().  One caller makes
\* MaxCalls calls; of two callers each makes one, as _headers does for one
\* get_llm.
Enter ==
    /\ pc \in {"idle", "returned", "raised"}
    /\ IF peer = NoPeer
       THEN Cardinality({ i \in 1..Len(trace) : trace[i].op = "enter" }) < MaxCalls
       ELSE pc = "idle"
    /\ pc' = "test"
    /\ now' = clock
    /\ data' = None
    /\ result' = ""
    /\ how' = "running"
    /\ exc' = ""
    /\ trace' = Append(trace, [op |-> "enter", by |-> self, now |-> clock,
                               token |-> _token, exp |-> _exp])
    /\ UNCHANGED <<iteration, conversation_history, llm_response, parsed,
                   tool_name, tool_input, llm_calls, forced_calls, tool_calls,
                   llm_outcome, tool_outcome, user_prompt, system_instructions,
                   messages, self, peer, tool_names, http, _token, _exp, clock>>

\* Variant: a cached token is used until the second of its expiry.
Test_nomargin ==
    /\ pc = "test"
    /\ pc' = IF _token.given /\ _token.text # "" /\ now < _exp
             THEN "cached" ELSE "post"
    /\ UNCHANGED <<iteration, conversation_history, llm_response, parsed,
                   tool_name, tool_input, result, how, llm_calls, forced_calls,
                   tool_calls, llm_outcome, tool_outcome, exc, user_prompt,
                   system_instructions, messages, trace, self, peer, tool_names,
                   http, _token, _exp, clock, now, data>>

\* if _token and now < _exp - 60
Test ==
    /\ pc = "test"
    /\ pc' = IF _token.given /\ _token.text # "" /\ now < _exp - 60
             THEN "cached" ELSE "post"
    /\ UNCHANGED <<iteration, conversation_history, llm_response, parsed,
                   tool_name, tool_input, result, how, llm_calls, forced_calls,
                   tool_calls, llm_outcome, tool_outcome, exc, user_prompt,
                   system_instructions, messages, trace, self, peer, tool_names,
                   http, _token, _exp, clock, now, data>>

\* return _token, of the cached token.
ReturnCached ==
    /\ pc = "cached"
    /\ pc' = "returned"
    /\ how' = "cache"
    /\ result' = _token.text
    /\ trace' = Append(trace, [op |-> "return", by |-> self, from |-> "cache",
                               result |-> _token.text, now |-> now,
                               token |-> _token, exp |-> _exp])
    /\ UNCHANGED <<iteration, conversation_history, llm_response, parsed,
                   tool_name, tool_input, llm_calls, forced_calls, tool_calls,
                   llm_outcome, tool_outcome, exc, user_prompt,
                   system_instructions, messages, self, peer, tool_names, http,
                   _token, _exp, clock, now, data>>

\* resp = requests.post(...); resp.raise_for_status(); data = resp.json():
\* the one token request of the call.  Its exceptions are not caught.  With
\* request k, requests.post raises, raise_for_status raises, resp.json()
\* raises, or a JSON object comes back that may lack access_token and whose
\* expires_in is absent, an integer, a string of digits or null.  Two
\* callers see the transport error and the objects with a token and a
\* usable expires_in.
Post ==
    /\ pc = "post"
    /\ LET k == Cardinality({ i \in 1..Len(trace) : trace[i].op = "post" }) + 1
           TokenResponses ==
               { [kind |-> "transport error"], [kind |-> "HTTP error status"],
                 [kind |-> "not JSON"],
                 [kind |-> "JSON", body |-> [token_type |-> "Bearer"]],
                 [kind |-> "JSON", body |-> [access_token |-> "t" \o ToString(k)]] }
               \cup { [kind |-> "JSON",
                       body |-> [access_token |-> "t" \o ToString(k),
                                 expires_in |-> e]] :
                          e \in { [t |-> "int", v |-> 62],
                                  [t |-> "str", s |-> <<"9", "0">>],
                                  [t |-> "null"] } }
       IN  \E resp \in IF peer = NoPeer THEN TokenResponses
                        ELSE { r \in TokenResponses :
                                 \/ r.kind = "transport error"
                                 \/ /\ r.kind = "JSON"
                                    /\ "access_token" \in DOMAIN r.body
                                    /\ "expires_in" \in DOMAIN r.body
                                           => r.body.expires_in.t = "int" } :
               /\ trace' = Append(trace, [op |-> "post", by |-> self, id |-> k,
                                          now |-> now, token |-> _token,
                                          exp |-> _exp, resp |-> resp])
               /\ IF resp.kind = "JSON"
                  THEN /\ pc' = "store_token"
                       /\ data' = [id |-> k, body |-> resp.body]
                       /\ UNCHANGED <<how, exc>>
                  ELSE /\ pc' = "raised"
                       /\ how' = "raised"
                       /\ exc' = resp.kind
                       /\ data' = data
    /\ UNCHANGED <<iteration, conversation_history, llm_response, parsed,
                   tool_name, tool_input, result, llm_calls, forced_calls,
                   tool_calls, llm_outcome, tool_outcome, user_prompt,
                   system_instructions, messages, self, peer, tool_names, http,
                   _token, _exp, clock, now>>

\* Variant: data.get("access_token"), which stores None when the key is
\* missing and goes on.
StoreToken_get ==
    /\ pc = "store_token"
    /\ _token' = IF "access_token" \in DOMAIN data.body
                 THEN [given |-> TRUE, text |-> data.body.access_token]
                 ELSE None
    /\ pc' = "store_exp"
    /\ trace' = Append(trace, [op |-> "store_token", by |-> self, id |-> data.id])
    /\ UNCHANGED <<iteration, conversation_history, llm_response, parsed,
                   tool_name, tool_input, result, how, llm_calls, forced_calls,
                   tool_calls, llm_outcome, tool_outcome, exc, user_prompt,
                   system_instructions, messages, self, peer, tool_names, http,
                   _exp, clock, now, data>>

\* _token = data["access_token"]: KeyError when the key is missing.
StoreToken ==
    /\ pc = "store_token"
    /\ IF "access_token" \in DOMAIN data.body
       THEN /\ _token' = [given |-> TRUE, text |-> data.body.access_token]
            /\ pc' = "store_exp"
            /\ trace' = Append(trace, [op |-> "store_token", by |-> self,
                                       id |-> data.id])
            /\ UNCHANGED <<how, exc>>
       ELSE /\ pc' = "raised"
            /\ how' = "raised"
            /\ exc' = "'access_token'"
            /\ trace' = Append(trace, [op |-> "raise", by |-> self, line |-> 38,
                                       token |-> _token, exp |-> _exp])
            /\ UNCHANGED _token
    /\ UNCHANGED <<iteration, conversation_history, llm_response, parsed,
                   tool_name, tool_input, result, llm_calls, forced_calls,
                   tool_calls, llm_outcome, tool_outcome, user_prompt,
                   system_instructions, messages, self, peer, tool_names, http,
                   _exp, clock, now, data>>

\* _exp = now + int(data.get("expires_in", 3600)): int() of null is a
\* TypeError, of a text that is not a number a ValueError.
StoreExp ==
    /\ pc = "store_exp"
    /\ LET expires_in == IF "expires_in" \in DOMAIN data.body
                         THEN data.body.expires_in
                         ELSE [t |-> "int", v |-> 3600]
           int == CASE expires_in.t = "int" -> [ok |-> TRUE, v |-> expires_in.v]
                    [] expires_in.t = "str" /\ IsIntLiteral(expires_in.s)
                           -> [ok |-> TRUE, v |-> CharsToInt(expires_in.s)]
                    [] OTHER -> [ok |-> FALSE, v |-> 0]
       IN  IF int.ok
           THEN /\ _exp' = now + int.v
                /\ pc' = "return"
                /\ trace' = Append(trace, [op |-> "store_exp", by |-> self,
                                           id |-> data.id])
                /\ UNCHANGED <<how, exc>>
           ELSE /\ pc' = "raised"
                /\ how' = "raised"
                /\ exc' = "int() argument must be a string, a bytes-like object or a real number, not 'NoneType'"
                /\ trace' = Append(trace, [op |-> "raise", by |-> self, line |-> 39,
                                           token |-> _token, exp |-> _exp])
                /\ UNCHANGED _exp
    /\ UNCHANGED <<iteration, conversation_history, llm_response, parsed,
                   tool_name, tool_input, result, llm_calls, forced_calls,
                   tool_calls, llm_outcome, tool_outcome, user_prompt,
                   system_instructions, messages, self, peer, tool_names, http,
                   _token, clock, now, data>>

\* return _token, after the stores: the global is read again.
Return ==
    /\ pc = "return"
    /\ pc' = "returned"
    /\ how' = "response"
    /\ result' = _token.text
    /\ trace' = Append(trace, [op |-> "return", by |-> self, from |-> "response",
                               result |-> _token.text, now |-> now,
                               token |-> _token, exp |-> _exp])
    /\ UNCHANGED <<iteration, conversation_history, llm_response, parsed,
                   tool_name, tool_input, llm_calls, forced_calls, tool_calls,
                   llm_outcome, tool_outcome, exc, user_prompt,
                   system_instructions, messages, self, peer, tool_names, http,
                   _token, _exp, clock, now, data>>

\* The other caller runs next: the locals change places, the globals stay.
AuthSwitch ==
    /\ peer # NoPeer
    /\ self' = 3 - self
    /\ pc' = peer.pc
    /\ now' = peer.now
    /\ data' = peer.data
    /\ result' = peer.result
    /\ how' = peer.how
    /\ exc' = peer.exc
    /\ peer' = [pc |-> pc, now |-> now, data |-> data, result |-> result,
                how |-> how, exc |-> exc]
    /\ UNCHANGED <<iteration, conversation_history, llm_response, parsed,
                   tool_name, tool_input, llm_calls, forced_calls, tool_calls,
                   llm_outcome, tool_outcome, user_prompt, system_instructions,
                   messages, trace, tool_names, http, _token, _exp, clock>>

\* One caller at a time, call after call.
AuthSpec ==
    AuthInit /\ [][Tick \/ Enter \/ Test \/ ReturnCached \/ Post \/ StoreToken
                   \/ StoreExp \/ Return]_vars

\* Two callers, as two run_task invocations in two threads make them
\* through get_llm and _headers.
AuthConcSpec ==
    AuthConcInit /\ [][Tick \/ Enter \/ Test \/ ReturnCached \/ Post \/ StoreToken
                   \/ StoreExp \/ Return \/ AuthSwitch]_vars

(***************************************************************************)
(* Properties of run_task, checked under Spec.                             *)
(***************************************************************************)
\* Once run_task has returned, nothing more happens: no call, no entry.
ReturnedIsFinal == pc = "done" => UNCHANGED vars

\* An in-budget llm.invoke is made in this step.
RoundCallStep == pc = "loop" /\ llm_calls' = llm_calls + 1

\* The forced-final llm.invoke is made in this step.
ForcedCallStep == pc = "loop" /\ forced_calls' = forced_calls + 1

\* The tool name is one of the three registered names.
NameInRegistry(v) ==
    v.t = "str" /\ Join(v.s) \in {"wikipedia_search", "calculator", "unit_converter"}

\* The budget of rounds: the round log never holds more than max_iterations
\* entries, at most one forced-final model call is made, and it is made only
\* after max_iterations rounds that each left an entry.
RoundBudget ==
    /\ Len(conversation_history) <= max_iterations
    /\ forced_calls <= 1
    /\ (forced_calls = 1 =>
            /\ iteration = max_iterations
            /\ llm_calls = max_iterations
            /\ Len(conversation_history) = max_iterations)
    /\ (pc = "done" /\ iteration = max_iterations => forced_calls = 1)

\* C1: for every sequence of model responses and tool outcomes, the round log
\* never holds more than max_iterations entries, a run in which no round
\* produced a final answer makes exactly one forced-final model call, and a
\* run that returned a final answer in-budget makes none.
C1_ForcedFinalExactlyOnce ==
    /\ Len(conversation_history) <= max_iterations
    /\ forced_calls <= 1
    /\ (pc = "done" /\ how = "final_answer" => forced_calls = 0)
    /\ (pc = "done" /\ how # "final_answer" /\ llm_calls >= 1 /\ llm_outcome = "returned"
            => forced_calls = 1)

\* C2: whenever a round's response is a tool call whose tool value is not a
\* registered name, no tool is called in that round and the entry "Tried to use
\* <tool> but it doesn't exist" is appended to the round log.
C2_UnknownToolRecorded ==
    [][ (RoundCallStep /\ llm_outcome' = "returned" /\ parsed'.type = "tool_call"
            /\ ~NameInRegistry(parsed'.tool))
        => /\ tool_calls' = tool_calls
           /\ pc' # "tool"
           /\ conversation_history' =
                  Append(conversation_history,
                         "Tried to use " \o Join(parsed'.tool.s) \o " but it doesn't exist")
      ]_vars

\* C3: when the registered tool raises in round k, the invocation goes on: the
\* entry "Tried <tool> but got error: Error: <message>" is appended, nothing is
\* returned, and the next step is round k+1 or the forced-final round.
C3_ToolFailureContinues ==
    [][ (pc = "tool" /\ tool_calls' = tool_calls + 1 /\ tool_outcome' = "raised")
        => /\ pc' = "loop"
           /\ how' = "running"
           /\ iteration' = iteration + 1
           /\ iteration' <= max_iterations
           /\ conversation_history' =
                  Append(conversation_history,
                         "Tried " \o Join(tool_name.s) \o " but got error: Error: " \o exc')
      ]_vars

C3_Witness ==
    /\ pc = "loop"
    /\ tool_outcome = "raised"
    /\ Len(conversation_history) = 2
    /\ conversation_history[2] = "Tried calculator but got error: Error: timeout"

\* C4: run_task never lets an exception out: whatever get_llm, llm.invoke, the
\* interpreter and the dispatch do, it ends by returning a string, and every
\* exception that is not a tool's ends it with the error message.
C4_NeverRaises ==
    /\ pc \in {"start", "loop", "tool", "done"}
    /\ (pc = "done" => how \in {"final_answer", "forced_final", "error"})
    /\ (pc = "done" /\ how = "error" => result = ErrorMessage(exc))
    /\ (llm_outcome = "raised" => pc = "done" /\ how = "error")
    /\ (how = "running" => pc # "done" /\ result = "")

C4_Witness ==
    /\ pc = "done"
    /\ how = "error"
    /\ llm_outcome = "returned"
    /\ llm_response = R_list
    /\ result = "I encountered an error: unhashable type: 'list'\n\nPlease try rephrasing your query."

\* C5: a model call that raises, in a round or in the forced-final round, ends
\* the invocation at once with "I encountered an error: <cause>" and the
\* suggestion to rephrase: no entry is appended, no tool is called, and no call
\* follows; a tool that raises leaves the loop running.
C5_ModelFailureFatal ==
    [][ /\ ((RoundCallStep \/ ForcedCallStep) /\ llm_outcome' = "raised")
           => /\ pc' = "done"
              /\ result' = "I encountered an error: " \o exc'
                               \o "\n\nPlease try rephrasing your query."
              /\ UNCHANGED <<conversation_history, tool_calls, iteration>>
        /\ (pc = "tool" /\ tool_outcome' = "raised") => pc' = "loop" /\ how' = "running"
        /\ ReturnedIsFinal
      ]_vars

C5_Witness ==
    /\ pc = "done"
    /\ how = "error"
    /\ llm_outcome = "raised"
    /\ tool_outcome = "raised"
    /\ llm_calls = 2
    /\ forced_calls = 0
    /\ result = "I encountered an error: 401 Unauthorized\n\nPlease try rephrasing your query."

\* C6: when the response of an in-budget round is a final answer, run_task
\* returns that round's raw text at once: no tool call, no entry, no forced-final
\* call, and nothing after it. A first response without braces is returned after
\* one model call with an empty round log.
C6_FinalAnswerReturns ==
    [][ /\ (RoundCallStep /\ llm_outcome' = "returned"
               /\ parse_llm_response(llm_response').type = "final_answer")
           => /\ pc' = "done"
              /\ result' = Join(llm_response')
              /\ how' = "final_answer"
              /\ forced_calls' = 0
              /\ UNCHANGED <<conversation_history, tool_calls>>
        /\ (RoundCallStep /\ llm_calls = 0 /\ llm_outcome' = "returned"
               /\ ~Contains(llm_response', "{"))
           => pc' = "done" /\ result' = Join(llm_response') /\ conversation_history' = <<>>
        /\ ReturnedIsFinal
      ]_vars

C6_Witness ==
    /\ pc = "done"
    /\ how = "final_answer"
    /\ llm_calls = 1
    /\ llm_response = R_free
    /\ result = "no"
    /\ conversation_history = <<>>

\* C7: the forced-final round returns the model's text as it is, without
\* interpreting it: even a well-formed call of a registered tool is returned as
\* the answer, no tool is called, no entry is appended, nothing follows.
C7_ForcedFinalVerbatim ==
    [][ /\ (ForcedCallStep /\ llm_outcome' = "returned")
           => /\ pc' = "done"
              /\ result' = Join(llm_response')
              /\ UNCHANGED <<conversation_history, tool_calls, parsed, tool_name, tool_input>>
        /\ ReturnedIsFinal
      ]_vars

C7_Witness ==
    /\ pc = "done"
    /\ how = "forced_final"
    /\ llm_response = R_calc
    /\ result = "{\"tool\":\"calculator\",\"input\":\"1\"}"
    /\ tool_calls = 0

\* C12: the round log is append-only: in every step the previous log is a
\* prefix of the new one, at most one entry is added, and the entry added in
\* round k (k = 0, 1, 2) takes position k + 1, after the entries of all the
\* rounds before it.
C12_LogAppendOnly ==
    [][ /\ Len(conversation_history') >= Len(conversation_history)
        /\ Len(conversation_history') <= Len(conversation_history) + 1
        /\ SubSeq(conversation_history', 1, Len(conversation_history))
               = conversation_history
        /\ (conversation_history' # conversation_history
               => Len(conversation_history') = iteration + 1 /\ iteration' = iteration + 1)
      ]_vars

C12_Witness ==
    /\ Len(conversation_history) = 3
    /\ conversation_history[1] = "Tried to use teleporter but it doesn't exist"
    /\ conversation_history[2] = "Tried calculator but got error: Error: timeout"
    /\ conversation_history[3] = "Used calculator('1') -> The result is: **1**..."

\* The rendering of a log of at most max_iterations entries, written out.
EntryLine(e) == "- " \o e \o "\n"
EntryLines(h) ==
    IF Len(h) = 0 THEN ""
    ELSE IF Len(h) = 1 THEN EntryLine(h[1])
    ELSE IF Len(h) = 2 THEN EntryLine(h[1]) \o EntryLine(h[2])
    ELSE EntryLine(h[1]) \o EntryLine(h[2]) \o EntryLine(h[3])

\* C18: the prompt of round 0 is built from the user prompt alone and the log
\* is empty then; the prompt of a round n > 0 is the user prompt, then the
\* line of every entry appended in rounds 0..n-1 in append order (the log
\* holds exactly n entries), then the instruction to continue or answer; the
\* forced-final prompt renders the whole log in the same way.
C18_PromptConstruction ==
    [][ /\ (RoundCallStep /\ iteration = 0 =>
               /\ conversation_history = <<>>
               /\ messages'.user = "User question: " \o user_prompt \o "\n\nWhat should I do?")
        /\ (RoundCallStep /\ iteration > 0 =>
               /\ Len(conversation_history) = iteration
               /\ messages'.user =
                      "User question: " \o user_prompt \o "\n\nPrevious actions:\n"
                          \o EntryLines(conversation_history)
                          \o "\nWhat should I do next? If you have enough information, provide the final answer.")
        /\ (ForcedCallStep =>
               /\ Len(conversation_history) = max_iterations
               /\ messages'.user =
                      "User question: " \o user_prompt \o "\n\nHere's what we found:\n"
                          \o EntryLines(conversation_history)
                          \o "\nPlease provide a final answer to the user's question based on this information.")
      ]_vars

C18_Witness ==
    /\ forced_calls = 1
    /\ \E i \in 1..Len(trace) :
          /\ trace[i].kind = "llm"
          /\ trace[i].round = 2
          /\ trace[i].prompt =
                 "User question: asdkjasd\n\nPrevious actions:\n"
                     \o "- Tried to use teleporter but it doesn't exist\n"
                     \o "- Tried calculator but got error: Error: timeout\n"
                     \o "\nWhat should I do next? If you have enough information, provide the final answer."
    /\ messages.user =
           "User question: asdkjasd\n\nHere's what we found:\n"
               \o "- Tried to use teleporter but it doesn't exist\n"
               \o "- Tried calculator but got error: Error: timeout\n"
               \o "- Used calculator('144/12') -> The result is: **12**...\n"
               \o "\nPlease provide a final answer to the user's question based on this information."

\* The in-budget model calls made so far, and the tool calls made so far.
RoundEvents == SelectSeq(trace, LAMBDA e : e.kind = "llm")
ToolEvents == SelectSeq(trace, LAMBDA e : e.kind = "tool")

\* The names that are in no registry entry, and the name a request text asks for.
UnknownNames == { TELEPORTER, NAME_CAPITAL, NAME_TRAILING, NAME_SHORT }
RequestOf(name) == ToolCallText(Quoted(name), W_x)
IsUnknownRequest(e) ==
    e.outcome = "returned" /\ \E name \in UnknownNames : e.text = RequestOf(name)
RequestedName(e) == CHOOSE name \in UnknownNames : e.text = RequestOf(name)
DoesNotExist(e) == "Tried to use " \o Join(RequestedName(e)) \o " but it doesn't exist"

\* C13 (Scenario C): as long as every in-budget round's response requests a
\* tool name that is not registered, each round adds one entry and one to the
\* iteration count, the log is exactly the unknown-tool entry of each round,
\* and no tool is called; such a run cannot return in-budget, after
\* max_iterations rounds the forced-final call is the next step, it is made
\* once with the three unknown-tool entries in its prompt, and the text it
\* returns is the result of run_task.
C13_ScenarioC ==
    (\A i \in 1..Len(RoundEvents) : IsUnknownRequest(RoundEvents[i])) =>
        /\ tool_calls = 0
        /\ ToolEvents = <<>>
        /\ iteration = Len(RoundEvents)
        /\ conversation_history = [i \in 1..Len(RoundEvents) |-> DoesNotExist(RoundEvents[i])]
        /\ forced_calls <= 1
        /\ (Len(RoundEvents) = max_iterations => pc \in {"loop", "done"})
        /\ (Len(RoundEvents) \in 1..(max_iterations - 1) => pc = "loop" /\ forced_calls = 0)
        /\ (Len(RoundEvents) > 0 /\ pc = "done" =>
               /\ forced_calls = 1
               /\ Len(conversation_history) = max_iterations
               /\ trace[Len(trace)].kind = "forced"
               /\ messages.user =
                      "User question: " \o user_prompt \o "\n\nHere's what we found:\n"
                          \o EntryLines(conversation_history)
                          \o "\nPlease provide a final answer to the user's question based on this information."
               /\ (llm_outcome = "returned" =>
                      how = "forced_final" /\ result = Join(trace[Len(trace)].text)))

C13_Witness ==
    /\ pc = "done"
    /\ how = "forced_final"
    /\ tool_calls = 0
    /\ llm_calls = 3
    /\ forced_calls = 1
    /\ conversation_history = << "Tried to use teleporter but it doesn't exist",
                                 "Tried to use teleporter but it doesn't exist",
                                 "Tried to use teleporter but it doesn't exist" >>
    /\ messages.user =
           "User question: asdkjasd\n\nHere's what we found:\n"
               \o "- Tried to use teleporter but it doesn't exist\n"
               \o "- Tried to use teleporter but it doesn't exist\n"
               \o "- Tried to use teleporter but it doesn't exist\n"
               \o "\nPlease provide a final answer to the user's question based on this information."
    /\ llm_response = R_free
    /\ result = "no"

\* The text 'The result is: **12**'.
RESULT_12 == RESULT_PREFIX \o <<"1", "2">> \o RESULT_SUFFIX

\* C14 (Scenario A): when the first response is the request of calculator
\* with input 144/12, the second call of the run is the calculator's, made
\* with '144/12', and what it returns is 'The result is: **12**'; the success
\* entry with that output is then the log; the prompt of the second model call
\* shows the entry; and when the second response is a text without braces,
\* run_task has returned that text after two model calls and one tool call.
C14_ScenarioA ==
    (Len(trace) >= 1 /\ trace[1].kind = "llm" /\ trace[1].text = R_div) =>
        /\ (Len(trace) = 1 =>
               pc = "tool" /\ PyStr(tool_name) = "calculator" /\ tool_input.s = DIV_INPUT)
        /\ (Len(trace) >= 2 =>
               /\ trace[2].kind = "tool"
               /\ trace[2].name = "calculator"
               /\ trace[2].text = DIV_INPUT
               /\ (trace[2].outcome = "returned" =>
                      /\ trace[2].out = RESULT_12
                      /\ conversation_history[1] =
                             "Used calculator('144/12') -> The result is: **12**..."))
        /\ (Len(trace) >= 3 /\ trace[2].outcome = "returned" =>
               /\ trace[3].kind = "llm"
               /\ trace[3].prompt =
                      "User question: " \o user_prompt \o "\n\nPrevious actions:\n"
                          \o "- Used calculator('144/12') -> The result is: **12**...\n"
                          \o "\nWhat should I do next? If you have enough information, provide the final answer."
               /\ (trace[3].outcome = "returned" /\ ~Contains(trace[3].text, "{") =>
                      /\ pc = "done"
                      /\ how = "final_answer"
                      /\ result = Join(trace[3].text)
                      /\ Len(trace) = 3
                      /\ llm_calls = 2
                      /\ forced_calls = 0
                      /\ tool_calls = 1))

C14_Witness ==
    /\ user_prompt = "What is 144 / 12?"
    /\ pc = "done"
    /\ how = "final_answer"
    /\ result = "no"
    /\ llm_calls = 2
    /\ tool_calls = 1
    /\ trace[1].text = R_div
    /\ trace[2].out = RESULT_12
    /\ conversation_history = << "Used calculator('144/12') -> The result is: **12**..." >>

\* The guards of the four actions: where run_task can take its next step.
CanStep ==
    \/ pc = "start"
    \/ pc = "loop" /\ iteration <= max_iterations
    \/ pc = "tool"

\* The calls made so far, plus one once the client has been built: every
\* step adds one to it, so a run has no more steps than its largest value.
Progress == llm_calls + forced_calls + tool_calls + (IF pc = "start" THEN 0 ELSE 1)

\* The bounds of one invocation, and that it cannot stop before it returns:
\* the iteration count stays within max_iterations, at most max_iterations + 1
\* model calls and max_iterations tool calls are made, the number of steps
\* is bounded, and a step is possible in every state but the returned one.
ResourceBounds ==
    /\ iteration <= max_iterations
    /\ llm_calls <= max_iterations
    /\ llm_calls + forced_calls <= max_iterations + 1
    /\ tool_calls <= max_iterations
    /\ tool_calls <= llm_calls
    /\ Progress <= 2 * max_iterations + 2
    /\ (pc = "done" \/ CanStep)

\* Every step of run_task is a call or the return: no step leaves the
\* number of calls as it was.
EveryStepProgresses == [][Progress' = Progress + 1 \/ (pc' = "done" /\ Progress' >= Progress)]_vars

\* C15: run_task terminates within the bounds of ResourceBounds, and an
\* invocation that has returned has ended in one of three ways: with the
\* final answer of an in-budget round, with the text of the forced-final call
\* after max_iterations rounds, or with the error message after a failure of
\* the model call (of the client's construction or of llm.invoke).
C15_TerminatesInThreeWays ==
    /\ ResourceBounds
    /\ (pc = "done" =>
           \/ how = "final_answer" /\ forced_calls = 0 /\ llm_outcome = "returned"
           \/ how = "forced_final" /\ iteration = max_iterations /\ forced_calls = 1
           \/ /\ how = "error"
              /\ result = ErrorMessage(exc)
              /\ (llm_outcome = "raised" \/ llm_calls + forced_calls = 0))

\* The order of the calls of one invocation: the model call of round 0 comes
\* first; a tool call directly follows the returned model call of its round;
\* the model call of a round directly follows the last call of the round
\* before, a tool call that returned or raised or a model call that
\* returned; the forced-final call is the last call and follows round
\* max_iterations - 1; a response with two tool requests ends the run.
TraceSequential ==
    /\ Len(RoundEvents) = llm_calls
    /\ Len(ToolEvents) = tool_calls
    /\ \A i \in 1..Len(trace) :
          /\ (trace[i].kind = "tool" =>
                 /\ i > 1
                 /\ trace[i-1].kind = "llm"
                 /\ trace[i-1].outcome = "returned"
                 /\ trace[i-1].round = trace[i].round)
          /\ (trace[i].kind = "llm" =>
                 IF i = 1 THEN trace[i].round = 0
                 ELSE trace[i-1].kind \in {"llm", "tool"}
                      /\ (trace[i-1].kind = "llm" => trace[i-1].outcome = "returned")
                      /\ trace[i].round = trace[i-1].round + 1)
          /\ (trace[i].kind = "forced" =>
                 /\ i = Len(trace)
                 /\ i > 1
                 /\ trace[i-1].round = max_iterations - 1
                 /\ trace[i].round = max_iterations)
          /\ (trace[i].kind = "llm" /\ trace[i].text = R_two =>
                 i = Len(trace) /\ pc = "done")

\* C16: one invocation is one sequential control flow: a step makes at most
\* one call; while a tool call is pending the only step is that call's return,
\* which ends the round; an in-budget model call is made only when all earlier
\* rounds are complete (one model call each, at most one tool call each); the
\* calls are ordered as TraceSequential says; and a response that holds two
\* tool requests causes no second tool call in its round.
C16_StrictlySequential ==
    [][ /\ llm_calls' + forced_calls' + tool_calls' <= llm_calls + forced_calls + tool_calls + 1
        /\ (pc = "tool" =>
               /\ llm_calls = iteration + 1
               /\ tool_calls' = tool_calls + 1
               /\ llm_calls' = llm_calls
               /\ forced_calls' = forced_calls
               /\ iteration' = iteration + 1
               /\ pc' = "loop")
        /\ (tool_calls' # tool_calls => pc = "tool")
        /\ (RoundCallStep =>
               /\ llm_calls = iteration
               /\ tool_calls <= iteration
               /\ tool_calls' = tool_calls)
        /\ TraceSequential'
      ]_vars

C16_Witness ==
    /\ pc = "done"
    /\ how = "final_answer"
    /\ Len(trace) = 5
    /\ trace[1].kind = "llm" /\ trace[1].round = 0
    /\ trace[2].kind = "tool" /\ trace[2].round = 0
    /\ trace[3].kind = "llm" /\ trace[3].round = 1
    /\ trace[4].kind = "tool" /\ trace[4].round = 1
    /\ trace[5].kind = "llm" /\ trace[5].round = 2 /\ trace[5].text = R_two
    /\ llm_calls = 3
    /\ tool_calls = 2

\* The first ExcerptLen characters of a tool's output, all of it when shorter.
ExcerptOf(out) ==
    [k \in 1..(IF Len(out) < ExcerptLen THEN Len(out) ELSE ExcerptLen) |-> out[k]]

\* C19: for every tool call that returned, the entry of its round is 'Used
\* <name>('<input>') -> ' followed by the first 100 characters of the output
\* (the whole output when it is shorter) and '...'; for an output of more
\* than 100 characters the entry is not the one with the whole output; and
\* every prompt built afterwards is made of the user prompt, the fixed lines
\* and the entries of the log, so it shows the excerpt and nothing else of
\* the output.
C19_BoundedExcerpt ==
    \A i \in 1..Len(trace) :
        (trace[i].kind = "tool" /\ trace[i].outcome = "returned") =>
            LET e == trace[i]
                used == "Used " \o e.name \o "('" \o Join(e.text) \o "') -> "
                entry == conversation_history[e.round + 1]
            IN  /\ Len(conversation_history) > e.round
                /\ entry = used \o Join(ExcerptOf(e.out)) \o "..."
                /\ Len(entry) <= Len(used) + ExcerptLen + 3
                /\ (Len(e.out) > ExcerptLen => entry # used \o Join(e.out) \o "...")
                /\ \A j \in (i+1)..Len(trace) :
                      /\ (trace[j].kind = "llm" =>
                             trace[j].prompt =
                                 "User question: " \o user_prompt \o "\n\nPrevious actions:\n"
                                     \o EntryLines(SubSeq(conversation_history, 1, trace[j].round))
                                     \o "\nWhat should I do next? If you have enough information, provide the final answer.")
                      /\ (trace[j].kind = "forced" =>
                             trace[j].prompt =
                                 "User question: " \o user_prompt \o "\n\nHere's what we found:\n"
                                     \o EntryLines(conversation_history)
                                     \o "\nPlease provide a final answer to the user's question based on this information.")

C19_Witness ==
    /\ Len(trace) >= 3
    /\ trace[2].kind = "tool"
    /\ trace[2].out = LongOutput
    /\ Len(trace[2].out) > ExcerptLen
    /\ trace[3].kind = "llm"
    /\ conversation_history[1] =
           "Used wikipedia_search('x') -> " \o Join([k \in 1..ExcerptLen |-> "z"]) \o "..."

\* The registered names, character for character.
UNIT_CONVERTER == <<"u", "n", "i", "t", "_", "c", "o", "n", "v", "e", "r", "t", "e", "r">>
RegisteredNames == { WIKIPEDIA_SEARCH, CALCULATOR, UNIT_CONVERTER }

\* C20: a tool call is dispatched (the next step is the tool's call) only
\* when its tool value is a string equal, character for character, to one of
\* the three registered names, and every tool called has such a name; a
\* string that is not one of them, such as 'Calculator', 'calculator ' or
\* 'calc', is handled as an unknown tool: its entry is appended, the round is
\* used up, no tool is called.
C20_ExactNameMatch ==
    [][ (RoundCallStep /\ llm_outcome' = "returned" /\ parsed'.type = "tool_call") =>
            /\ (pc' = "tool" =>
                   /\ parsed'.tool.t = "str"
                   /\ parsed'.tool.s \in RegisteredNames
                   /\ tool_name' = parsed'.tool)
            /\ (parsed'.tool.t = "str" /\ parsed'.tool.s \in RegisteredNames => pc' = "tool")
            /\ (parsed'.tool.t = "str" /\ parsed'.tool.s \notin RegisteredNames =>
                   /\ pc' = "loop"
                   /\ iteration' = iteration + 1
                   /\ tool_calls' = tool_calls
                   /\ conversation_history' =
                          Append(conversation_history,
                                 "Tried to use " \o Join(parsed'.tool.s) \o " but it doesn't exist"))
      ]_vars

C20_Witness ==
    /\ tool_calls = 0
    /\ iteration = 3
    /\ trace[1].text = R_capital
    /\ trace[2].text = R_trailing
    /\ trace[3].text = R_short
    /\ conversation_history = << "Tried to use Calculator but it doesn't exist",
                                 "Tried to use calculator  but it doesn't exist",
                                 "Tried to use calc but it doesn't exist" >>

\* C21: the registry is built once, from the hardcoded tools, with the names
\* wikipedia_search, calculator, unit_converter in this order and no name
\* twice; after that no step of run_task (a model call with its
\* interpretation, the handling of an unknown tool, a tool call that returns
\* or raises, the forced-final call) changes the names or the key set.
C21_RegistryFixed ==
    [][ /\ (pc = "start" /\ pc' = "loop" =>
               /\ tool_names' = << "wikipedia_search", "calculator", "unit_converter" >>
               /\ Cardinality(tool_map') = Len(tool_names'))
        /\ (pc # "start" => tool_names' = tool_names /\ tool_map' = tool_map)
      ]_vars

C21_Witness ==
    /\ pc = "done"
    /\ how = "forced_final"
    /\ tool_names = << "wikipedia_search", "calculator", "unit_converter" >>
    /\ conversation_history[1] = "Tried to use teleporter but it doesn't exist"
    /\ conversation_history[2] = "Used calculator('144/12') -> The result is: **12**..."
    /\ conversation_history[3] = "Tried wikipedia_search but got error: Error: timeout"

\* The entry that the round ending in this step appends: the unknown-tool
\* entry after the model call, or the success or failure entry after the
\* tool call.
RoundEntry ==
    IF pc = "tool"
    THEN IF tool_outcome' = "returned"
         THEN "Used " \o PyStr(tool_name) \o "('" \o PyStr(tool_input) \o "') -> "
                  \o Join(ExcerptOf(trace'[Len(trace')].out)) \o "..."
         ELSE "Tried " \o PyStr(tool_name) \o " but got error: Error: " \o exc'
    ELSE "Tried to use " \o PyStr(tool_name') \o " but it doesn't exist"

\* C24: a round that ends without returning (the iteration count goes up)
\* appends exactly one entry, an unknown-tool, success or failure entry; a
\* step that does not end a round leaves the log as it is; so the model call
\* of round n is made with n entries in the log, and the forced-final call
\* with max_iterations entries.
C24_OneRecordPerRound ==
    [][ /\ (iteration' = iteration + 1 =>
               conversation_history' = Append(conversation_history, RoundEntry))
        /\ (iteration' = iteration => conversation_history' = conversation_history)
        /\ iteration' \in {iteration, iteration + 1}
        /\ (RoundCallStep => Len(conversation_history) = iteration)
        /\ (ForcedCallStep => Len(conversation_history) = max_iterations)
      ]_vars

C24_Witness ==
    /\ forced_calls = 1
    /\ iteration = max_iterations
    /\ conversation_history = << "Tried wikipedia_search but got error: Error: timeout",
                                 "Tried to use calc but it doesn't exist",
                                 "Used calculator('1') -> The result is: **1**..." >>

\* C26: every response that run_task has interpreted is a tool call or a
\* final answer (parsed holds no other type once a response was interpreted),
\* and the entry of the 'unexpected response' branch is in no log.
C26_NoUnclearRound ==
    /\ parsed.type \in {"none", "tool_call", "final_answer"}
    /\ (parsed.type = "none" => llm_response = <<>>)
    /\ \A i \in 1..Len(conversation_history) :
           conversation_history[i] # "LLM response was unclear"
    /\ \A i \in 1..Len(trace) :
           (trace[i].kind = "llm" /\ trace[i].outcome = "returned") =>
               parse_llm_response(trace[i].text).type \in {"tool_call", "final_answer"}

C26_Witness ==
    /\ pc = "done"
    /\ iteration = 2
    /\ Len(conversation_history) = 2
    /\ llm_response = R_missing
    /\ parsed.type = "final_answer"
    /\ result = "{\"tool\":\"calculator\"}"

HasFailureEntry ==
    \E i \in 1..Len(trace) :
        \/ trace[i].kind = "tool" /\ trace[i].outcome = "raised"
        \/ /\ trace[i].kind = "llm" /\ trace[i].outcome = "returned"
           /\ IsUnknownRequest(trace[i])

\* C23: no exception leaves run_task, and post_prompt answers every request
\* with status 200 and the string run_task returned, never with HTTP 400; in
\* particular after a model call failed, after a tool was unknown and after
\* a tool call failed.
C23_NoErrorPath ==
    /\ pc # "raised"
    /\ http.status \in {0, 200}
    /\ (pc = "responded" <=> http.status = 200)
    /\ (pc = "responded" => http.output = result)
    /\ (pc = "responded" /\ llm_outcome = "raised" =>
            http = [status |-> 200, output |-> ErrorMessage(exc)])
    /\ (pc = "responded" /\ HasFailureEntry => http.status = 200 /\ http.output = result)

C23_Witness ==
    /\ pc = "responded"
    /\ http = [status |-> 200, output |-> result]
    /\ how = "error"
    /\ llm_outcome = "raised"
    /\ Len(conversation_history) = 2
    /\ \E i \in 1..Len(trace) : trace[i].kind = "tool" /\ trace[i].outcome = "raised"
    /\ \E i \in 1..Len(trace) : trace[i].kind = "llm" /\ IsUnknownRequest(trace[i])

(***************************************************************************)
(* Properties of calculator_function, checked under CalcSpec.              *)
(***************************************************************************)
\* The tree is made of numeric literals, the binary operators + - * / ** %
\* and unary minus only.
RECURSIVE OnlyArithmetic(_)
OnlyArithmetic(tree) ==
    CASE tree.node = "Constant" -> tree.kind \in {"int", "float"}
      [] tree.node = "BinOp" ->
             /\ tree.op \in {"Add", "Sub", "Mult", "Div", "Pow", "Mod"}
             /\ OnlyArithmetic(tree.left) /\ OnlyArithmetic(tree.right)
      [] tree.node = "UnaryOp" -> tree.op = "USub" /\ OnlyArithmetic(tree.operand)
      [] OTHER -> FALSE

\* C28: safe_eval_expression gives a value only for a tree of numeric
\* literals, + - * / ** % and unary minus, and such a tree gives a value or
\* an arithmetic error; a node of any other class (a name, a call, an
\* attribute, a comparison, a string) and an operator without an entry
\* (unary plus, ~, //) raise ValueError; calculator_function returns, and
\* for every exception it returns "Cannot calculate '<expression>'. Error: "
\* and the exception's message, the expression being the text it was given.
C28_SafeEvaluation ==
    /\ pc \in {"calc", "calculated"}
    /\ pc = "calculated" =>
          LET r == safe_eval_expression(parsed)
          IN  /\ (~r.raised => OnlyArithmetic(parsed))
              /\ (parsed # NoTree /\ OnlyArithmetic(parsed) =>
                     ~r.raised \/ r.type = "ZeroDivisionError")
              /\ (parsed.node \in {"Name", "Call", "Attribute", "Compare"} =>
                     r.raised /\ r.type = "ValueError")
              /\ (parsed.node = "Constant" /\ parsed.kind = "str" =>
                     r.raised /\ r.type = "ValueError")
              /\ (parsed.node = "UnaryOp" /\ parsed.op # "USub" =>
                     r.raised /\ r.type = "ValueError")
              /\ (parsed.node = "BinOp"
                      /\ parsed.op \notin {"Add", "Sub", "Mult", "Div", "Pow", "Mod"} =>
                     r.raised /\ r.type = "ValueError")
              /\ (r.raised =>
                     result = "Cannot calculate '" \o Join(tool_input.s) \o "'. Error: " \o r.msg)
              /\ (~r.raised => result # "" /\ result # "Cannot calculate '" \o Join(tool_input.s) \o "'. Error: ")
              /\ tool_outcome = "returned"
              /\ exc = ""

C28_Witness ==
    /\ pc = "calculated"
    /\ tool_input.s = <<" ", "+", "1", " ">>
    /\ parsed.node = "UnaryOp" /\ parsed.op = "UAdd"
    /\ result = "Cannot calculate ' +1 '. Error: Unsupported operation: UAdd"

(***************************************************************************)
(* Properties of run_task with the shipped tools, checked under ShippedSpec.*)
(***************************************************************************)
\* C25: no call of a shipped tool raises: every tool call of the run returned
\* a text, every entry of the log is the 'Used ...' entry of the tool call of
\* its round, with the first 100 characters of the text the tool returned
\* (its error description when the tool detected an error), and no entry is
\* the 'Tried ... but got error' entry of a failed call.
C25_ShippedToolsReturn ==
    /\ tool_outcome # "raised"
    /\ \A i \in 1..Len(trace) : trace[i].kind = "tool" => trace[i].outcome = "returned"
    /\ \A j \in 1..Len(conversation_history) :
          \E i \in 1..Len(trace) :
              /\ trace[i].kind = "tool"
              /\ trace[i].round = j - 1
              /\ trace[i].name \in {"wikipedia_search", "calculator", "unit_converter"}
              /\ conversation_history[j] =
                     "Used " \o trace[i].name \o "('" \o Join(trace[i].text) \o "') -> "
                         \o Join(ExcerptOf(trace[i].out)) \o "..."
              /\ \A msg \in {"timeout", "division by zero"} :
                     conversation_history[j] #
                         "Tried " \o trace[i].name \o " but got error: Error: " \o msg

C25_Witness ==
    /\ pc = "loop"
    /\ conversation_history =
           << "Used calculator('1/0') -> Cannot calculate '1/0'. Error: division by zero...",
              "Used wikipedia_search('x?') -> Found multiple results. Please be more specific. "
                  \o "Options: Mercury (planet), Mercury (element), Mercu...",
              "Used unit_converter('x') -> Please use format: 'X unit to unit' "
                  \o "(e.g., '100 kilometers to miles')..." >>

(***************************************************************************)
(* Properties of the single-tool pipeline, checked under PipelineSpec.     *)
(***************************************************************************)
\* The library gave search_wikipedia a page: the search succeeded.
SearchSucceeded ==
    trace # <<>> /\ trace[1].outcome \in {"page", "suggested", "disambiguation", "search_page"}

\* The order of the pipeline: no exception leaves run_task; one search, made
\* first; a result that reads as a failure is returned as it is and the model
\* is not invoked; otherwise the model is invoked at most once, and run_task
\* returns its output or, when get_llm or llm.invoke raised, the fallback
\* text with the search result.
PipelineOrder ==
    /\ pc \in {"start", "searched", "done"}
    /\ tool_calls = (IF pc = "start" THEN 0 ELSE 1)
    /\ Len(trace) = tool_calls
    /\ llm_calls <= 1
    /\ (pc # "done" => llm_calls = 0)
    /\ (pc = "done" =>
           /\ how \in {"search_failed", "summary", "fallback"}
           /\ (how = "search_failed" => llm_calls = 0 /\ result = Join(trace[1].out))
           /\ (how = "summary" =>
                  llm_calls = 1 /\ llm_outcome = "returned" /\ result = Join(llm_response))
           /\ (how = "fallback" =>
                  /\ llm_outcome = "raised" \/ llm_calls = 0
                  /\ result = "Here's the Wikipedia content (LLM summarization unavailable):\n\n"
                                  \o Join(trace[1].out))
           /\ (~SearchSucceeded => how = "search_failed"))

\* C29: the pipeline keeps its order, and a search that succeeded is never
\* treated as a failed search: its result goes to the model.
C29_SingleToolPipeline ==
    /\ PipelineOrder
    /\ (pc = "done" /\ SearchSucceeded => how \in {"summary", "fallback"})

\* A page was found, and run_task returned its text as a failed search.
C29_PageTakenForFailure ==
    /\ pc = "done"
    /\ SearchSucceeded
    /\ how = "search_failed"
    /\ llm_calls = 0
    /\ result = "Title: X\n\nSummary: It reads: No Wikipedia pages found.\n\nURL: u"

(***************************************************************************)
(* Properties of _agentic_answer, checked under AgentSpec.                 *)
(***************************************************************************)

\* C30: the loop is bounded by max_steps.  At most max_steps calls are made
\* on the model with the tools bound; the first response without tool calls
\* ends the invocation with its content as the result, and nothing is called
\* after it; the call on the model without the tools is made only after
\* max_steps responses that all contained tool calls, it is then made exactly
\* once, on the messages and the request of a final answer, and its content
\* is the result; the model is never called more than max_steps + 1 times.
C30_BoundedLoop ==
    LET calls(c) == { i \in 1..Len(trace) : trace[i].call = c }
        bound == calls("llm_with_tools.invoke")
        plain == calls("llm.invoke")
        text(content) == IF "str" \in DOMAIN content THEN content.str
                         ELSE "['" \o content.blocks[1] \o "']"
    IN  /\ Cardinality(bound) = llm_calls
        /\ Cardinality(plain) = forced_calls
        /\ Cardinality(calls("tool.invoke")) = tool_calls
        /\ llm_calls <= max_steps
        /\ forced_calls <= 1
        /\ llm_calls + forced_calls <= max_steps + 1
        /\ \A i \in bound :
               trace[i].outcome = "returned" /\ trace[i].tool_calls = 0
               => /\ i = Len(trace)
                  /\ pc = "done"
                  /\ how = "answer"
                  /\ result = text(trace[i].content)
        /\ \A i \in plain :
               /\ i = Len(trace)
               /\ llm_calls = max_steps
               /\ \A j \in bound :
                      trace[j].outcome = "returned" /\ trace[j].tool_calls > 0
               /\ messages = Append(conversation_history,
                                    [type |-> "human",
                                     content |-> "Provide a concise final answer."])
               /\ trace[i].outcome = "returned"
                  => pc = "done" /\ how = "failsafe"
                     /\ result = text(trace[i].content)
        /\ pc # "loop" /\ iteration = max_steps => forced_calls = 1
        /\ pc = "done" => how \in {"answer", "failsafe"}
        /\ how = "failsafe" => forced_calls = 1

\* Four responses with tool calls, one of them to a tool that is not
\* registered and one to a tool that raised, then the call without the tools.
C30_Witness ==
    /\ pc = "done"
    /\ how = "failsafe"
    /\ llm_calls = max_steps
    /\ forced_calls = 1
    /\ tool_calls > 0
    /\ result = "['4']"
    /\ \E i, j \in 1..Len(conversation_history) :
           /\ conversation_history[i].type = "tool"
           /\ conversation_history[i].content = "Tool 'teleporter' not found."
           /\ conversation_history[j].type = "tool"
           /\ conversation_history[j].content = "ERROR: 1 validation error"

\* C31: _run_tool_calls never raises and returns one ToolMessage per tool
\* call of the response, in the order of the calls and with their ids.  A
\* call of a tool that is not in TOOL_MAP gets "Tool '<name>' not found." and
\* no tool is invoked for it; a call whose tool raises gets "ERROR: <cause>";
\* a call whose tool returns gets the text of its result; the calls after a
\* failed one are still made, each tool being invoked once, in order.
C31_OneMessagePerCall ==
    [][ /\ llm_calls' = llm_calls + 1
        /\ llm_outcome' = "returned"
        /\ trace'[Len(trace) + 1].tool_calls > 0
        => LET ai == conversation_history'[Len(conversation_history) + 1]
               k == Len(ai.tool_calls)
               ToolMessage(i) == conversation_history'[Len(conversation_history) + 1 + i]
               TOOL_MAP == {"web_search", "wiki_summary", "fetch_url", "calculator",
                            "unit_convert", "now"}
               invokes == SubSeq(trace', Len(trace) + 2, Len(trace'))
               of(i) == { j \in 1..Len(invokes) :
                             invokes[j].tool_calls = ai.tool_calls[i].id }
           IN  /\ pc' = "loop"
               /\ k = trace'[Len(trace) + 1].tool_calls
               /\ Len(conversation_history') = Len(conversation_history) + 1 + k
               /\ \A j \in 1..Len(invokes) : invokes[j].call = "tool.invoke"
               /\ tool_calls' = tool_calls + Len(invokes)
               /\ \A i \in 1..k :
                      /\ ToolMessage(i).type = "tool"
                      /\ ToolMessage(i).tool_call_id = ai.tool_calls[i].id
                      /\ IF ai.tool_calls[i].name \notin TOOL_MAP
                         THEN /\ of(i) = {}
                              /\ ToolMessage(i).content =
                                     "Tool '" \o ai.tool_calls[i].name \o "' not found."
                         ELSE \E j \in of(i) :
                                  /\ of(i) = {j}
                                  /\ ToolMessage(i).content =
                                         IF invokes[j].outcome = "raised"
                                         THEN "ERROR: " \o invokes[j].content
                                         ELSE invokes[j].content
                                  /\ \A h \in 1..(i - 1) : \A g \in of(h) : g < j
      ]_vars

\* A response that calls an unknown tool and then a registered one, and a
\* response whose first tool raises and whose second returns: in both the
\* second call has its result.
C31_Witness ==
    \E p, q \in 1..Len(conversation_history) :
        /\ q + 2 <= Len(conversation_history)
        /\ p + 2 <= Len(conversation_history)
        /\ conversation_history[p].type = "ai"
        /\ conversation_history[p + 1].content = "Tool 'teleporter' not found."
        /\ conversation_history[p + 2].type = "tool"
        /\ conversation_history[p + 2].content = "{'result': 4.0}"
        /\ conversation_history[p + 2].tool_call_id = conversation_history[p].tool_calls[2].id
        /\ conversation_history[q].type = "ai"
        /\ conversation_history[q + 1].content = "ERROR: 1 validation error"
        /\ conversation_history[q + 2].type = "tool"
        /\ conversation_history[q + 2].content = "{'result': 4.0}"

\* C32: the list of messages only grows at its end and keeps the order of
\* the tool-calling protocol.  It starts with the HumanMessage of the user;
\* whenever the model is about to be called, every AIMessage of the list
\* with k tool calls is followed at once by exactly k ToolMessages carrying
\* the ids of those calls in order, and every ToolMessage belongs to such a
\* group; the list handed to the model is that list, with the request of a
\* final answer after it in the call without the tools.
C32_ProtocolOrder ==
    [][ LET WellFormed(ms) ==
                /\ ms[1] = [type |-> "human", content |-> Join(user_prompt)]
                /\ \A i \in 1..Len(ms) :
                       /\ ms[i].type = "ai" =>
                              LET k == Len(ms[i].tool_calls)
                              IN  /\ k > 0
                                  /\ i + k <= Len(ms)
                                  /\ \A j \in 1..k :
                                         /\ ms[i + j].type = "tool"
                                         /\ ms[i + j].tool_call_id
                                                = ms[i].tool_calls[j].id
                                  /\ i + k < Len(ms) => ms[i + k + 1].type # "tool"
                       /\ ms[i].type = "tool" =>
                              \E a \in 1..(i - 1) :
                                  /\ ms[a].type = "ai"
                                  /\ i - a <= Len(ms[a].tool_calls)
                                  /\ \A b \in (a + 1)..(i - 1) : ms[b].type = "tool"
                       /\ ms[i].type = "human" => i \in {1, Len(ms)}
        IN  /\ WellFormed(conversation_history)
            /\ WellFormed(conversation_history')
            /\ llm_calls = 0 =>
                   conversation_history =
                       << [type |-> "human", content |-> Join(user_prompt)] >>
            /\ Len(conversation_history') >= Len(conversation_history)
            /\ SubSeq(conversation_history', 1, Len(conversation_history))
                   = conversation_history
            /\ WellFormed(messages')
            /\ messages' =
                   IF forced_calls' > forced_calls
                   THEN Append(conversation_history,
                               [type |-> "human",
                                content |-> "Provide a concise final answer."])
                   ELSE conversation_history ]_vars

\* The call without the tools is handed the user's message, four responses
\* with their tool messages, one of them with two, and the request.
C32_Witness ==
    /\ pc = "done"
    /\ how = "failsafe"
    /\ Len(messages) = Len(conversation_history) + 1
    /\ messages[Len(messages)].content = "Provide a concise final answer."
    /\ Len(conversation_history) > 1 + 2 * max_steps
    /\ \E i \in 1..Len(conversation_history) :
           /\ conversation_history[i].type = "ai"
           /\ Len(conversation_history[i].tool_calls) = 2

(***************************************************************************)
(* Properties of get_access_token, checked under AuthSpec.                 *)
(***************************************************************************)

\* C33: the token cache.  A call that finds a token cached and its time
\* earlier than the expiry minus 60 seconds returns that token, issues no
\* request and leaves the cache as it is; any other call issues a request,
\* and exactly one; when it succeeds the token of the response is cached
\* with the expiry "time of the call + expires_in" (3600 when absent) and
\* returned.  A token returned from the cache is more than 60 seconds away
\* from the expiry recorded for it.
C33_TokenCaching ==
    LET Usable(e) == e.token.given /\ e.token.text # "" /\ e.now < e.exp - 60
        expires_in(body) ==
            IF "expires_in" \notin DOMAIN body THEN 3600
            ELSE IF body.expires_in.t = "int" THEN body.expires_in.v
            ELSE CharsToInt(body.expires_in.s)
    IN  /\ \A i \in 1..Len(trace) :
               /\ trace[i].op = "enter" /\ i < Len(trace) =>
                      IF Usable(trace[i])
                      THEN trace[i + 1].op = "return" /\ trace[i + 1].from = "cache"
                      ELSE trace[i + 1].op = "post"
               /\ trace[i].op = "post" => trace[i - 1].op = "enter"
               /\ trace[i].op = "return" /\ trace[i].from = "cache" =>
                      /\ trace[i - 1].op = "enter"
                      /\ trace[i].result = trace[i - 1].token.text
                      /\ trace[i].token = trace[i - 1].token
                      /\ trace[i].exp = trace[i - 1].exp
                      /\ trace[i].exp - trace[i].now > 60
               /\ trace[i].op = "return" /\ trace[i].from = "response" =>
                      /\ i > 4
                      /\ trace[i - 1].op = "store_exp"
                      /\ trace[i - 2].op = "store_token"
                      /\ trace[i - 3].op = "post"
                      /\ trace[i - 4].op = "enter"
                      /\ trace[i].result = trace[i - 3].resp.body.access_token
                      /\ trace[i].token = [given |-> TRUE, text |-> trace[i].result]
                      /\ trace[i].exp = trace[i - 4].now
                                        + expires_in(trace[i - 3].resp.body)
        /\ pc = "returned" =>
               /\ trace[Len(trace)].op = "return"
               /\ trace[Len(trace)].from = how
               /\ result = trace[Len(trace)].result
               /\ _token = trace[Len(trace)].token
               /\ _exp = trace[Len(trace)].exp

\* A token was returned from the cache 61 seconds before its expiry, and a
\* later call, made 60 seconds before the expiry, asked for a new one.
C33_Witness ==
    /\ pc = "returned"
    /\ how = "response"
    /\ \E i, j \in 1..Len(trace) :
           /\ i < j
           /\ trace[i].op = "return"
           /\ trace[i].from = "cache"
           /\ trace[i].exp - trace[i].now = 61
           /\ trace[j].op = "post"
           /\ trace[j].token.given
           /\ trace[j].exp - trace[j].now = 60

\* C34: a refresh that failed leaves the cache as it was.  When the request
\* fails (requests.post raises, the status is an error, the body is not
\* JSON or has no access_token) the call raises, _token and _exp are what
\* they were when the call was entered, and the next call asks again.
C34_FailedRefresh ==
    [][ LET entered == trace[CHOOSE i \in 1..Len(trace) :
                                 /\ trace[i].op = "enter"
                                 /\ \A j \in (i + 1)..Len(trace) :
                                        trace[j].op # "enter"]
            Failed(e) == \/ e.op = "post" /\ e.resp.kind # "JSON"
                         \/ e.op = "raise" /\ e.line = 38
        IN  /\ (pc = "post" /\ pc' # "post"
                   /\ trace'[Len(trace')].resp.kind # "JSON")
               => (pc' = "raised" /\ exc' = trace'[Len(trace')].resp.kind)
            /\ (pc = "store_token" /\ pc' # "store_token"
                   /\ "access_token" \notin DOMAIN data.body)
               => pc' = "raised"
            /\ (pc \in {"post", "store_token"} /\ pc' = "raised")
               => /\ how' = "raised"
                  /\ Failed(trace'[Len(trace')])
                  /\ _token' = entered.token
                  /\ _exp' = entered.exp
            /\ (pc = "test" /\ pc' # "test" /\ Len(trace) > 1
                   /\ Failed(trace[Len(trace) - 1]))
               => pc' = "post"
      ]_vars

\* A token was cached; the refresh of the next call failed for an error
\* status, the call after it asked again and failed for a body without
\* access_token; the token and its expiry are still the cached ones.
C34_Witness ==
    /\ pc = "raised"
    /\ _token = [given |-> TRUE, text |-> "t1"]
    /\ _exp = 62
    /\ trace[Len(trace)].op = "raise"
    /\ trace[Len(trace)].line = 38
    /\ \E i \in 1..Len(trace) :
           /\ trace[i].op = "post"
           /\ trace[i].resp.kind = "HTTP error status"
           /\ trace[i].token = _token

(***************************************************************************)
(* Properties of two callers of get_access_token, checked under            *)
(* AuthConcSpec.                                                           *)
(***************************************************************************)

\* C35: the cached credential is safe to share between concurrent callers.
\* Whenever no caller stands between the store of the token and the store
\* of the expiry, the cached token and the cached expiry come from the same
\* token response; and every token a caller is given is one that the cache
\* does not hold for expired at the time of the call.
C35_SharedCacheSafe ==
    LET Last(op) == CHOOSE i \in 1..Len(trace) :
                        /\ trace[i].op = op
                        /\ \A j \in (i + 1)..Len(trace) : trace[j].op # op
    IN  /\ ( /\ pc # "store_exp"
             /\ peer.pc # "store_exp"
             /\ \E i \in 1..Len(trace) : trace[i].op = "store_exp" )
           => trace[Last("store_token")].id = trace[Last("store_exp")].id
        /\ \A i \in 1..Len(trace) :
               trace[i].op = "return" =>
                   /\ trace[i].result = trace[i].token.text
                   /\ trace[i].now < trace[i].exp

\* Both callers have returned; the cache holds the token of the second
\* response, which came without expires_in, and the expiry of the first,
\* "time of the call + 62".
C35_TokenAndExpiryOfTwoResponses ==
    /\ pc = "returned"
    /\ peer.pc = "returned"
    /\ _token = [given |-> TRUE, text |-> "t2"]
    /\ \E i, j \in 1..Len(trace) :
           /\ trace[i].op = "post"
           /\ trace[i].id = 1
           /\ "expires_in" \in DOMAIN trace[i].resp.body
           /\ _exp = trace[i].now + 62
           /\ trace[j].op = "post"
           /\ trace[j].id = 2
           /\ "expires_in" \notin DOMAIN trace[j].resp.body
    /\ result = "t2"
    /\ peer.result = "t2"

(***************************************************************************)
(* Properties of two invocations, checked under ConcSpec.                  *)
(***************************************************************************)
\* The calls of an invocation that end a round with an entry, and the entry
\* each of them leaves when the invocation runs alone.
ClosesRound(e) == e.kind = "tool" \/ (e.kind = "llm" /\ IsUnknownRequest(e))
EntryAlone(e) ==
    IF e.kind = "llm" THEN DoesNotExist(e)
    ELSE IF e.outcome = "returned"
    THEN "Used " \o e.name \o "('" \o Join(e.text) \o "') -> " \o Join(ExcerptOf(e.out)) \o "..."
    ELSE "Tried " \o e.name \o " but got error: Error: timeout"

\* What run_task returns alone, given the calls it made.
ResultAlone(tr) ==
    IF tr = <<>> THEN ErrorMessage("token request failed")
    ELSE IF tr[Len(tr)].outcome = "raised" THEN ErrorMessage("401 Unauthorized")
    ELSE Join(tr[Len(tr)].text)

\* The locals r are what the invocation has when it runs alone and makes the
\* calls of r.trace with the same outcomes.
Alone(r) ==
    LET closing == SelectSeq(r.trace, ClosesRound)
    IN  /\ r.iteration = Len(closing)
        /\ r.conversation_history = [k \in 1..Len(closing) |-> EntryAlone(closing[k])]
        /\ r.llm_calls = Len(SelectSeq(r.trace, LAMBDA e : e.kind = "llm"))
        /\ r.tool_calls = Len(SelectSeq(r.trace, LAMBDA e : e.kind = "tool"))
        /\ \A j \in 1..Len(r.trace) :
              r.trace[j].kind = "llm" =>
                  r.trace[j].prompt =
                      IF r.trace[j].round = 0
                      THEN "User question: " \o r.user_prompt \o "\n\nWhat should I do?"
                      ELSE "User question: " \o r.user_prompt \o "\n\nPrevious actions:\n"
                               \o EntryLines(SubSeq(r.conversation_history, 1, r.trace[j].round))
                               \o "\nWhat should I do next? If you have enough information, provide the final answer."
        /\ (r.pc = "done" => r.result = ResultAlone(r.trace))

\* C17: under every interleaving of the steps of two invocations, the locals
\* of each (the one running and the one suspended) are those of a run alone
\* with the same model responses and tool outcomes: the round log holds the
\* entries of its own rounds only, the iteration count is the number of its
\* own completed rounds, its prompts show its own user prompt and entries,
\* and its result is the one of the run alone.
C17_NoSharedState == Alone(Locals) /\ Alone(peer)

C17_Witness ==
    /\ self = 1
    /\ pc = "tool"
    /\ iteration = 1
    /\ conversation_history = << "Tried to use teleporter but it doesn't exist" >>
    /\ peer.pc = "tool"
    /\ peer.iteration = 2
    /\ peer.conversation_history = << "Used calculator('1') -> The result is: **1**...",
                                      "Tried calculator but got error: Error: timeout" >>

(***************************************************************************)
(* Properties of parse_llm_response, checked under ParseSpec.              *)
(***************************************************************************)
\* The object text o decodes to a dict that has the keys tool and input.
IsToolCallObject(o) ==
    /\ Len(o) > 0
    /\ o[1] = "{"
    /\ json_loads(o).ok
    /\ HasKey(json_loads(o).pairs, TOOL_KEY)
    /\ HasKey(json_loads(o).pairs, INPUT_KEY)

\* The tool call that the object text o asks for.
ToolCallOf(o) ==
    [type |-> "tool_call",
     tool |-> Lookup(json_loads(o).pairs, TOOL_KEY),
     input |-> Lookup(json_loads(o).pairs, INPUT_KEY),
     content |-> <<>>]

\* The characters of s from the first '{' to the last '}', both included; empty
\* when there is no such span.
BraceSpan(s) ==
    LET opens == { i \in 1..Len(s) : s[i] = "{" }
        closes == { i \in 1..Len(s) : s[i] = "}" }
    IN  IF opens = {} \/ closes = {} THEN <<>>
        ELSE LET a == CHOOSE i \in opens : \A j \in opens : i <= j
                 b == CHOOSE i \in closes : \A j \in closes : j <= i
             IN  IF b < a THEN <<>> ELSE [k \in 1..(b - a + 1) |-> s[a + k - 1]]

\* C8: a text that does not contain both a '{' and a '}' is a final answer whose
\* content is the text unchanged.
C8_NoBracesFinalAnswer ==
    (pc = "interpreted" /\ ~(Contains(llm_response, "{") /\ Contains(llm_response, "}")))
        => /\ parsed.type = "final_answer"
           /\ parsed.content = llm_response

C8_Witness ==
    /\ pc = "interpreted"
    /\ llm_response = <<" ", "{">> \o W_tool
    /\ parsed.content = llm_response

\* C9 as stated: a text that contains a well-formed object with the keys tool
\* and input, whatever surrounds it, is classified as that tool call.
C9_AnySurroundingText ==
    pc = "interpreted" =>
        \A a \in 1..Len(llm_response) : \A b \in a..Len(llm_response) :
            IsToolCallObject(SubSeq(llm_response, a, b))
                => parsed = ToolCallOf(SubSeq(llm_response, a, b))

\* C9 amended: a text that contains a well-formed object with the keys tool and
\* input, with no '{' before the object and no '}' after it, is classified as
\* that tool call.
C9_CleanSurroundingText ==
    pc = "interpreted" =>
        \A a \in 1..Len(llm_response) : \A b \in a..Len(llm_response) :
            ( /\ IsToolCallObject(SubSeq(llm_response, a, b))
              /\ ~Contains(SubSeq(llm_response, 1, a - 1), "{")
              /\ ~Contains(SubSeq(llm_response, b + 1, Len(llm_response)), "}") )
                => parsed = ToolCallOf(SubSeq(llm_response, a, b))

C9_Witness ==
    /\ pc = "interpreted"
    /\ llm_response = <<"x", " ">> \o ToolCallText(W_calculator, W_x) \o <<" ", "x">>
    /\ parsed.type = "tool_call"
    /\ parsed.tool = [t |-> "str", s |-> CALCULATOR]
    /\ parsed.input = [t |-> "str", s |-> <<"x">>]

\* C10: the interpreter never throws: its result is always a tool call or a
\* final answer, and when the span from the first '{' to the last '}' is not a
\* decodable object with both the tool and the input key (the reversed order of
\* the braces included), it is the final answer with the whole text.
C10_NeverThrows ==
    pc = "interpreted" =>
        /\ parsed.type \in {"tool_call", "final_answer"}
        /\ ~IsToolCallObject(BraceSpan(llm_response))
               => parsed = [type |-> "final_answer", tool |-> NoVal, input |-> NoVal,
                            content |-> llm_response]

C10_Witness ==
    /\ pc = "interpreted"
    /\ llm_response = <<"}", Q, "{">>
    /\ parsed.type = "final_answer"
    /\ parsed.content = llm_response

\* C11: whenever parse_llm_response classifies a text as a tool call, the tool
\* value and the input value it returns are strings.
C11_ToolCallFieldsAreStrings ==
    (pc = "interpreted" /\ parsed.type = "tool_call")
        => parsed.tool.t = "str" /\ parsed.input.t = "str"

\* The positions of the first '{' and of the last '}' of s (0 when none).
FirstOpen(s) ==
    IF \E i \in 1..Len(s) : s[i] = "{"
    THEN CHOOSE i \in 1..Len(s) : s[i] = "{" /\ \A j \in 1..(i-1) : s[j] # "{"
    ELSE 0
LastClose(s) ==
    IF \E i \in 1..Len(s) : s[i] = "}"
    THEN CHOOSE i \in 1..Len(s) : s[i] = "}" /\ \A j \in (i+1)..Len(s) : s[j] # "}"
    ELSE 0

\* s holds two separate blocks: a well-formed object that begins at the first
\* '{', and after it another well-formed object that ends at the last '}'.
HasTwoBlocks(s) ==
    /\ FirstOpen(s) > 0
    /\ \E b \in FirstOpen(s)..Len(s) : \E c \in (b + 1)..LastClose(s) :
          /\ s[b] = "}"
          /\ s[c] = "{"
          /\ json_loads(SubSeq(s, FirstOpen(s), b)).ok
          /\ json_loads(SubSeq(s, c, LastClose(s))).ok

\* C22: a text with two separate '{...}' blocks (two well-formed objects, the
\* second after the first, with any text before, between and after them that
\* adds no brace outside them) is a final answer whose content is the whole
\* text: the span from the first '{' to the last '}' covers both blocks and
\* does not decode, so the text asks for no tool.
C22_TwoBlocksFinalAnswer ==
    (pc = "interpreted" /\ HasTwoBlocks(llm_response)) =>
        /\ ~json_loads(BraceSpan(llm_response)).ok
        /\ parsed.type = "final_answer"
        /\ parsed.content = llm_response
        /\ parsed.tool = NoVal

C22_Witness ==
    /\ pc = "interpreted"
    /\ llm_response = ToolCallText(W_calculator, W_x) \o <<" ">> \o ToolCallText(W_teleporter, W_x)
    /\ parsed.type = "final_answer"
    /\ parsed.content = llm_response

====
